---- MODULE Spec2Model ----
(***************************************************************************)
(* GitHub Replicant (Rust): the synchronization engine.                    *)
(*                                                                         *)
(*   main.rs  main, destination_path, existing_repo_paths,                 *)
(*            prune_extra_repos                                            *)
(*   git.rs   sync_repository, clone_repository, force_update,             *)
(*            current_upstream, has_commits, is_default_branch_error,      *)
(*            is_dmca_error                                                *)
(*                                                                         *)
(* A string is a sequence of tokens (a word, a phrase, " " or "\n"); a     *)
(* path is the sequence of its components below the output directory, so  *)
(* <<>> is the output directory itself.  Every external call (a git        *)
(* process, a filesystem operation) ends in an outcome chosen by the       *)
(* environment.                                                            *)
(***************************************************************************)
EXTENDS Naturals, Sequences, FiniteSets, TLC

\* Most repositories one run synchronizes (bounds the fetched list).
MaxRepos == 2

\* Values of --concurrency the runs are started with (args.rs: usize).
ConcurrencyValues == {0, 1, 2}

----------------------------------------------------------------------------
(* Strings *)

Whitespace == {" ", "\n"}

RECURSIVE TrimStart(_)
TrimStart(s) ==
    IF s # <<>> /\ Head(s) \in Whitespace THEN TrimStart(Tail(s)) ELSE s

RECURSIVE TrimEnd(_)
TrimEnd(s) ==
    IF s # <<>> /\ s[Len(s)] \in Whitespace
    THEN TrimEnd(SubSeq(s, 1, Len(s) - 1))
    ELSE s

\* str::trim
Trim(s) == TrimEnd(TrimStart(s))

\* str::lines: the text split at "\n", without a final empty line.
RECURSIVE LinesFrom(_, _)
LinesFrom(s, cur) ==
    IF s = <<>> THEN (IF cur = <<>> THEN <<>> ELSE <<cur>>)
    ELSE IF Head(s) = "\n" THEN <<cur>> \o LinesFrom(Tail(s), <<>>)
    ELSE LinesFrom(Tail(s), Append(cur, Head(s)))

Lines(s) == LinesFrom(s, <<>>)

\* ASCII lower-casing of one token.
LowerToken(t) ==
    CASE t = "DMCA" -> "dmca"
      [] t = "Dmca" -> "dmca"
      [] t = "Alice" -> "alice"
      [] t = "Git command failed: " -> "git command failed: "
      [] OTHER -> t

\* str::to_lowercase
ToLower(s) == [i \in 1..Len(s) |-> LowerToken(s[i])]

\* str::contains for a one-token needle.
Contains(s, needle) == \E i \in 1..Len(s) : s[i] = needle

\* str::eq_ignore_ascii_case on names (one token each).
eq_ignore_ascii_case(a, b) == LowerToken(a) = LowerToken(b)

MergeRefText == "Your configuration specifies to merge with the ref"
NoSuchRefText == "no such ref was fetched"

\* anyhow!("Git command failed: {}", stderr)
GitFailed(stderr) == <<"Git command failed: ">> \o stderr

is_default_branch_error_onlyfirst(msg) == Contains(msg, MergeRefText)

\* A test that takes either part of the signature for the whole.
is_default_branch_error_either(msg) ==
    Contains(msg, MergeRefText) \/ Contains(msg, NoSuchRefText)

is_default_branch_error(msg) ==
    Contains(msg, MergeRefText) /\ Contains(msg, NoSuchRefText)

is_dmca_error_casesensitive(msg) == Contains(msg, "dmca")

is_dmca_error(msg) == Contains(ToLower(msg), "dmca")

----------------------------------------------------------------------------
(* Repositories and destination paths *)

\* args.username
username == "Alice"

\* The remote repositories a fetch may return (github::Repo).
Repos ==
    { [name |-> "bob", owner |-> "alice", full_name |-> "alice/bob", fork |-> FALSE],
      [name |-> "x",   owner |-> "bob",   full_name |-> "bob/x",     fork |-> FALSE],
      [name |-> "z",   owner |-> "alice", full_name |-> "alice/z",   fork |-> TRUE] }

\* A destination that compares the owner with the root name byte by byte.
destination_path_case_sensitive(base_dir, repo, root_username) ==
    IF repo.owner = root_username
    THEN base_dir \o <<repo.name>>
    ELSE base_dir \o <<repo.owner, repo.name>>

destination_path(base_dir, repo, root_username) ==
    IF eq_ignore_ascii_case(repo.owner, root_username)
    THEN base_dir \o <<repo.name>>
    ELSE base_dir \o <<repo.owner, repo.name>>

\* The output directory, as a path of the modelled tree.
output_dir == <<>>

----------------------------------------------------------------------------
(* The filesystem below the output directory *)

Paths == {<<>>, <<"bob">>, <<"z">>, <<"bob", "x">>}

\* "absent", "dir" (exists, no .git directory in it), "repo" (exists with .git)
EntryStates == {"absent", "dir", "repo"}

IsPrefix(p, q) == Len(p) <= Len(q) /\ SubSeq(q, 1, Len(p)) = p

Parent(p) == SubSeq(p, 1, Len(p) - 1)

Children(p) == {q \in Paths : Len(q) = Len(p) + 1 /\ IsPrefix(p, q)}

\* Every entry that exists lies in a directory that exists.
WellFormed(f) ==
    /\ f[<<>>] \in {"absent", "dir"}
    /\ \A q \in Paths : (q # <<>> /\ f[q] # "absent") => f[Parent(q)] # "absent"

DiskStates == {f \in [Paths -> EntryStates] : WellFormed(f)}

\* Path::exists
exists(f, p) == f[p] # "absent"

\* is_git_repo, and repo_path.join(".git").exists()
is_git_repo(f, p) == f[p] = "repo"

\* fs::create_dir_all, succeeding
create_dir_all(f, p) ==
    [q \in Paths |-> IF IsPrefix(q, p) /\ f[q] = "absent" THEN "dir" ELSE f[q]]

\* fs::remove_dir_all, succeeding
remove_dir_all(f, p) ==
    [q \in Paths |-> IF IsPrefix(p, q) THEN "absent" ELSE f[q]]

\* The state of path p and of everything beneath it.
Under(f, p) == [q \in {r \in Paths : IsPrefix(p, r)} |-> f[q]]

IsEmptyDir(f, p) == \A q \in Children(p) : f[q] = "absent"

----------------------------------------------------------------------------
(* force_update and the upstream resolution chain (git.rs) *)

\* The git invocations, by argument list.
CmdFetch    == "fetch --all --prune"
CmdUpstream == "rev-parse --abbrev-ref --symbolic-full-name @{u}"
CmdBranch   == "branch --show-current"
CmdVerify   == "rev-parse --verify origin/<branch>"
CmdHead     == "symbolic-ref --quiet --short refs/remotes/origin/HEAD"
CmdRefs     == "for-each-ref --sort=-committerdate --count=1 refs/remotes/origin"
CmdCommits  == "rev-parse --verify HEAD"
CmdReset    == "reset --hard"

\* What one git process returns: exit success with its stdout, or failure
\* with its stderr.
Succeeded(stdout) == [ok |-> TRUE, out |-> stdout, err |-> <<>>]
Failed(stderr) == [ok |-> FALSE, out |-> <<>>, err |-> stderr]

\* The answers of the local repository and its remote to the git calls of
\* one force_update: one outcome per call the function can make.
GitEnvs ==
    [ fetch    : {Succeeded(<<>>), Failed(<<"fatal">>)},
      upstream : {Succeeded(<<"origin/", "main", "\n">>), Failed(<<"fatal">>)},
      branch   : {Succeeded(<<"work", "\n">>), Succeeded(<<>>), Failed(<<"fatal">>)},
      verify   : {Succeeded(<<"c0ffee", "\n">>), Failed(<<"fatal">>)},
      head     : {Succeeded(<<"origin/", "dev", "\n">>), Succeeded(<<>>), Failed(<<>>)},
      refs     : {Succeeded(<<"origin/", "topic", "\n">>), Succeeded(<<>>),
                  Failed(<<"fatal">>)},
      commits  : {"yes", "no", "spawn failed"},
      reset    : {Succeeded(<<"HEAD is now at", "\n">>), Failed(<<"fatal">>)} ]

\* run_git_command_output: Ok(trimmed stdout) or Err.
run_git_command_output(outcome) ==
    IF outcome.ok THEN [ok |-> TRUE, val |-> Trim(outcome.out)]
    ELSE [ok |-> FALSE, val |-> GitFailed(outcome.err)]

\* has_commits: Ok(status.success()) or the spawn error.
has_commits(env) ==
    IF env.commits = "spawn failed"
    THEN [ok |-> FALSE, val |-> FALSE]
    ELSE [ok |-> TRUE, val |-> (env.commits = "yes")]

UpSome(ref, calls) == [kind |-> "some", ref |-> ref, calls |-> calls]
UpNone(calls) == [kind |-> "none", ref |-> <<>>, calls |-> calls]
UpErr(calls) == [kind |-> "err", ref |-> <<>>, calls |-> calls]

\* The first line of the text that is not blank, trimmed; <<>> if none.
FirstNonBlankLine(text) ==
    LET ls == Lines(text)
        nb == {i \in 1..Len(ls) : Trim(ls[i]) # <<>>}
    IN IF nb = {} THEN <<>>
       ELSE Trim(ls[CHOOSE i \in nb : \A k \in nb : i <= k])

\* Steps 5 and 6: the commit check, made when no strategy resolved.
upstream_no_strategy(env, calls) ==
    LET hc == has_commits(env)
        c == Append(calls, CmdCommits)
    IN IF ~hc.ok THEN UpErr(c)
       ELSE IF ~hc.val THEN UpNone(c)
       ELSE UpErr(c)

\* Strategy 4: the most recently committed remote branch under origin.
upstream_from_refs(env, calls) ==
    LET r == run_git_command_output(env.refs)
        c == Append(calls, CmdRefs)
    IN IF r.ok /\ FirstNonBlankLine(r.val) # <<>>
       THEN UpSome(FirstNonBlankLine(r.val), c)
       ELSE upstream_no_strategy(env, c)

\* Strategy 3: the remote's symbolic default-branch ref.
upstream_from_head(env, calls) ==
    LET r == run_git_command_output(env.head)
        c == Append(calls, CmdHead)
    IN IF r.ok /\ r.val # <<>>
       THEN UpSome(r.val, c)
       ELSE upstream_from_refs(env, c)

\* Strategy 2: origin/<current branch>, when that remote ref exists.
upstream_from_branch(env, calls) ==
    LET b == run_git_command_output(env.branch)
        c == Append(calls, CmdBranch)
        candidate == <<"origin/">> \o b.val
    IN IF b.ok /\ b.val # <<>>
       THEN IF env.verify.ok
            THEN UpSome(candidate, Append(c, CmdVerify))
            ELSE upstream_from_head(env, Append(c, CmdVerify))
       ELSE upstream_from_head(env, c)

\* A chain that asks for the remote HEAD before the current branch.
current_upstream_head_first(env) ==
    LET r == run_git_command_output(env.upstream)
        h == run_git_command_output(env.head)
    IN IF r.ok THEN UpSome(r.val, <<CmdUpstream>>)
       ELSE IF h.ok /\ h.val # <<>> THEN UpSome(h.val, <<CmdUpstream, CmdHead>>)
       ELSE upstream_from_branch(env, <<CmdUpstream, CmdHead>>)

\* Strategy 1 first: git's own upstream of the current branch.
current_upstream(env) ==
    LET r == run_git_command_output(env.upstream)
    IN IF r.ok THEN UpSome(r.val, <<CmdUpstream>>)
       ELSE upstream_from_branch(env, <<CmdUpstream>>)

UpstreamContext == <<"Unable to determine upstream branch for forced update">>

ForceResult(ok, msg, calls, reset_to) ==
    [ok |-> ok, msg |-> msg, calls |-> calls, reset_to |-> reset_to]

\* A force_update that skips the reset of any repository without commits.
force_update_skip_empty(env) ==
    LET u == current_upstream(env)
        c == <<CmdFetch>> \o u.calls
    IN IF ~env.fetch.ok
       THEN ForceResult(FALSE, GitFailed(env.fetch.err), <<CmdFetch>>, <<>>)
       ELSE IF u.kind = "err" THEN ForceResult(FALSE, UpstreamContext, c, <<>>)
       ELSE IF u.kind = "none" \/ env.commits = "no"
            THEN ForceResult(TRUE, <<>>, c, <<>>)
       ELSE IF env.reset.ok THEN ForceResult(TRUE, <<>>, Append(c, CmdReset), u.ref)
       ELSE ForceResult(FALSE, GitFailed(env.reset.err), Append(c, CmdReset), u.ref)

\* A force_update that goes on after a failed fetch.
force_update_ignore_fetch_error(env) ==
    LET u == current_upstream(env)
        c == <<CmdFetch>> \o u.calls
    IN IF u.kind = "err" THEN ForceResult(FALSE, UpstreamContext, c, <<>>)
       ELSE IF u.kind = "none" THEN ForceResult(TRUE, <<>>, c, <<>>)
       ELSE IF env.reset.ok THEN ForceResult(TRUE, <<>>, Append(c, CmdReset), u.ref)
       ELSE ForceResult(FALSE, GitFailed(env.reset.err), Append(c, CmdReset), u.ref)

force_update(env) ==
    LET u == current_upstream(env)
        c == <<CmdFetch>> \o u.calls
    IN IF ~env.fetch.ok
       THEN ForceResult(FALSE, GitFailed(env.fetch.err), <<CmdFetch>>, <<>>)
       ELSE IF u.kind = "err" THEN ForceResult(FALSE, UpstreamContext, c, <<>>)
       ELSE IF u.kind = "none" THEN ForceResult(TRUE, <<>>, c, <<>>)
       ELSE IF env.reset.ok THEN ForceResult(TRUE, <<>>, Append(c, CmdReset), u.ref)
       ELSE ForceResult(FALSE, GitFailed(env.reset.err), Append(c, CmdReset), u.ref)

\* What a force_update can report to its job.
ForceOutcomes == {[ok |-> force_update(e).ok, msg |-> force_update(e).msg] : e \in GitEnvs}

----------------------------------------------------------------------------
(* The state of one run *)

VARIABLES
    concurrency,    \* args.concurrency
    force,          \* args.force
    exact_mirror,   \* args.exact_mirror
    repos_to_sync,  \* the retained repositories, in list order
    desired_paths,  \* the DesiredMirrorSet
    fs,             \* the tree below the output directory: path -> entry state
    pc,             \* where main is
    submitted,      \* how many jobs the pool has taken from the stream
    jpc,            \* per job: where its sync_repository is
    jerr,           \* per job: the error it holds while it recovers or cleans up
    jhist,          \* per job: what it has met (local state, the two recoverable signatures)
    results,        \* (name, result) of the finished jobs, in completion order
    todo,           \* the entries prune_extra_repos has still to visit
    fs_at_prune,    \* the tree as prune_extra_repos found it
    printed,        \* the [FAILED] lines written by the error summary
    exit,           \* how main returned
    genv,           \* the git answers given to one force_update
    gout,           \* what that force_update returned
    uout,           \* what current_upstream returned for the same answers
    api,            \* the hosting API: per query, the responses to its page requests
    fetch,          \* the locals of the fetch in progress (github.rs)
    all_repos,      \* the list the fetch handed to main
    include_forks,  \* args.include_forks
    probe,          \* two repositories and a root username, with their destination paths
    run             \* which sync_repository of the same path is running (1 or 2)

vars == << concurrency, force, exact_mirror, repos_to_sync, desired_paths, fs, pc,
           submitted, jpc, jerr, jhist, results, todo, fs_at_prune, printed, exit,
           genv, gout, uout, api, fetch, all_repos, include_forks, probe, run >>

args == << concurrency, force, exact_mirror >>
gitvars == << genv, gout, uout >>
fetchvars == << api, fetch, all_repos, include_forks >>
probevars == << probe, run >>

\* The values of the variables a specification does not move.
NotFetching == api = <<>> /\ fetch = <<>> /\ all_repos = <<>> /\ include_forks = FALSE
NotProbing == probe = <<>>

None == "none"
\* Nothing returned yet.
NoForceResult == [ok |-> FALSE, msg |-> <<"pending">>, calls |-> <<>>, reset_to |-> <<>>]
NoUpstream == [kind |-> "pending", ref |-> <<>>, calls |-> <<>>]
\* A job that has met nothing yet: its local state is not computed, its pull
\* has not failed with the default-branch signature, no clone was a takedown.
NoHistory == [local |-> "unknown", branch_changed |-> FALSE, takedown |-> FALSE]
\* The tree before prune_extra_repos has looked at it.
NotScanned == <<>>
Running == [code |-> "running", msg |-> <<>>]
Success == [code |-> "success", msg |-> <<>>]
Failure(msg) == [code |-> "failure", msg |-> msg]

count == Len(repos_to_sync)
Jobs == 1..count

\* A job destination that leaves the owner out.
Dest_without_owner(i) == output_dir \o <<repos_to_sync[i].name>>

\* The destination of job i, as main.rs:206 computes it inside the job.
Dest(i) == destination_path(output_dir, repos_to_sync[i], username)

InFlightJobs == {i \in Jobs : jpc[i] \notin {"queued", "done"}}
InFlight == Cardinality(InFlightJobs)

IsInjective(s) == \A i, k \in 1..Len(s) : s[i] = s[k] => i = k

\* The full names of Repos in str::cmp order (bytewise), and a name's place.
FullNamesInOrder == <<"alice/bob", "alice/z", "bob/x", "org/s">>
Rank(full_name) == CHOOSE k \in 1..Len(FullNamesInOrder) : FullNamesInOrder[k] = full_name

Ascending(s) ==
    \A i, k \in 1..Len(s) : i < k => Rank(s[i].full_name) < Rank(s[k].full_name)
Descending(s) ==
    \A i, k \in 1..Len(s) : i < k => Rank(s[i].full_name) > Rank(s[k].full_name)

\* The lists a fetch may hand to main: distinct repositories, by full name
\* in ascending order (the aggregation's sort, the API's default) or in
\* descending order (an API order that is not the sort's).
RepoLists ==
    {s \in UNION {[1..n -> Repos] : n \in 0..MaxRepos} :
        IsInjective(s) /\ (Ascending(s) \/ Descending(s))}

\* A filter that keeps every repository whatever the option.
FilterForks_keep_all(list, keep_forks) == list

\* main.rs:138-142
FilterForks(list, keep_forks) ==
    SelectSeq(list, LAMBDA r : keep_forks \/ ~r.fork)

\* main.rs:149-152
DesiredPaths(repos) ==
    {destination_path(output_dir, repos[i], username) : i \in 1..Len(repos)}

Init ==
    /\ concurrency \in ConcurrencyValues
    /\ force \in BOOLEAN
    /\ exact_mirror \in BOOLEAN
    /\ fs \in DiskStates
    /\ repos_to_sync = <<>>
    /\ desired_paths = {}
    /\ pc = "fetch"
    /\ submitted = 0
    /\ jpc = <<>>
    /\ jerr = <<>>
    /\ jhist = <<>>
    /\ results = <<>>
    /\ todo = {}
    /\ fs_at_prune = NotScanned
    /\ printed = <<>>
    /\ exit = Running
    /\ genv = None
    /\ gout = NoForceResult
    /\ uout = NoUpstream
    /\ NotFetching
    /\ NotProbing
    /\ run = 1

\* main returns: nothing of the run moves afterwards.
Return(how) ==
    /\ pc' = "exit"
    /\ exit' = how

----------------------------------------------------------------------------
(* main, up to the job pool (main.rs:72-177) *)

\* The aggregation step fails: `?` ends the run.
FetchFails ==
    /\ pc = "fetch"
    /\ Return(Failure(<<"GitHub API error">>))
    /\ UNCHANGED << args, repos_to_sync, desired_paths, fs, submitted, jpc, jerr, jhist,
                    results, todo, fs_at_prune, printed, gitvars, fetchvars, probevars >>

\* Following / followers mode with an empty account list: return Ok(()).
FetchNoAccounts ==
    /\ pc = "fetch"
    /\ Return(Success)
    /\ UNCHANGED << args, repos_to_sync, desired_paths, fs, submitted, jpc, jerr, jhist,
                    results, todo, fs_at_prune, printed, gitvars, fetchvars, probevars >>

\* A filter step that ends the run on an empty retained set whatever the
\* exact-mirror option.
Retain_empty_returns(list, keep_forks) ==
    LET kept == FilterForks(list, keep_forks)
    IN /\ repos_to_sync' = kept
       /\ desired_paths' = DesiredPaths(kept)
       /\ jpc' = [i \in 1..Len(kept) |-> "queued"]
       /\ jerr' = [i \in 1..Len(kept) |-> <<>>]
       /\ jhist' = [i \in 1..Len(kept) |-> NoHistory]
       /\ IF Len(kept) = 0
          THEN Return(Success)
          ELSE pc' = "mk_output" /\ exit' = exit

\* main.rs:138-171: forks are dropped from the fetched list, the desired
\* paths computed, and an empty retained set ends the run unless
\* --exact-mirror is set.
Retain(list, keep_forks) ==
    LET kept == FilterForks(list, keep_forks)
    IN /\ repos_to_sync' = kept
       /\ desired_paths' = DesiredPaths(kept)
       /\ jpc' = [i \in 1..Len(kept) |-> "queued"]
       /\ jerr' = [i \in 1..Len(kept) |-> <<>>]
       /\ jhist' = [i \in 1..Len(kept) |-> NoHistory]
       /\ IF Len(kept) = 0 /\ ~exact_mirror
          THEN Return(Success)
          ELSE pc' = "mk_output" /\ exit' = exit

\* The fetch returns a list, whatever the mode and the value of
\* --include-forks.
FetchRepos ==
    /\ pc = "fetch"
    /\ \E list \in RepoLists, keep_forks \in BOOLEAN : Retain(list, keep_forks)
    /\ UNCHANGED << args, fs, submitted, results, todo, fs_at_prune, printed, gitvars, fetchvars, probevars >>

\* tokio::fs::create_dir_all(&output_dir), main.rs:165 and main.rs:175
MakeOutputDir ==
    /\ pc = "mk_output"
    /\ \/ /\ fs' = create_dir_all(fs, output_dir)
          /\ pc' = IF count = 0 THEN "prune" ELSE "pool"
          /\ exit' = exit
       \/ /\ Return(Failure(<<"Failed to create output directory">>))
          /\ fs' = fs
    /\ UNCHANGED << args, repos_to_sync, desired_paths, submitted, jpc, jerr, jhist,
                    results, todo, fs_at_prune, printed, gitvars, fetchvars, probevars >>

----------------------------------------------------------------------------
(* The job pool: stream::iter(..).map(..).buffer_unordered(concurrency)    *)
(* (main.rs:195-216)                                                       *)

jobframe == << args, repos_to_sync, desired_paths, pc, submitted, todo,
               fs_at_prune, printed, exit, gitvars, fetchvars, probevars >>

\* The pool fills its queue before it polls a job it holds: a job moves
\* only when the pool is full or the stream is exhausted.
JobMayStep(i) ==
    /\ pc = "pool"
    /\ i \in Jobs
    /\ InFlight = concurrency \/ submitted = count

\* A pool that takes the next job whatever the number in flight.
PoolAdmit_unbounded ==
    /\ pc = "pool"
    /\ submitted < count
    /\ submitted' = submitted + 1
    /\ jpc' = [jpc EXCEPT ![submitted + 1] = "mkparent"]
    /\ UNCHANGED << args, repos_to_sync, desired_paths, fs, pc, jerr, jhist, results,
                    todo, fs_at_prune, printed, exit, gitvars, fetchvars, probevars >>

\* The pool takes the next job of the stream while fewer than `concurrency`
\* are in flight; the job's future starts with create_dir_all(parent).
PoolAdmit ==
    /\ pc = "pool"
    /\ submitted < count
    /\ InFlight < concurrency
    /\ submitted' = submitted + 1
    /\ jpc' = [jpc EXCEPT ![submitted + 1] = "mkparent"]
    /\ UNCHANGED << args, repos_to_sync, desired_paths, fs, pc, jerr, jhist, results,
                    todo, fs_at_prune, printed, exit, gitvars, fetchvars, probevars >>

\* The job returns: (repo_name, result) joins the collected results.
Finish(i, ok, msg) ==
    /\ jpc' = [jpc EXCEPT ![i] = "done"]
    /\ jerr' = [jerr EXCEPT ![i] = <<>>]
    /\ results' = Append(results, [name |-> repos_to_sync[i].name, ok |-> ok, msg |-> msg])

\* The job goes on to its next await.
Goto(i, where, err) ==
    /\ jpc' = [jpc EXCEPT ![i] = where]
    /\ jerr' = [jerr EXCEPT ![i] = err]
    /\ results' = results

----------------------------------------------------------------------------
(* sync_repository and clone_repository (git.rs:75-110, 224-252)           *)

PullErrors ==
    { <<"fatal">>,
      <<MergeRefText>>,
      <<NoSuchRefText>>,
      <<MergeRefText, NoSuchRefText>> }

CloneErrors == { <<"fatal">>, <<"blocked", "DMCA">>, <<"dmca", "takedown">> }

\* git.rs:77-81: create_dir_all(parent), or its error ends the job.
JobMkParent(i) ==
    /\ JobMayStep(i)
    /\ jpc[i] = "mkparent"
    /\ \/ /\ fs' = create_dir_all(fs, Parent(Dest(i)))
          /\ Goto(i, "check", <<>>)
       \/ /\ fs' = fs
          /\ Finish(i, FALSE, <<"Failed to ensure parent directory">>)
    /\ jhist' = jhist
    /\ UNCHANGED jobframe

\* clone_repository's first test (git.rs:226): an existing path is removed.
CloneEntry(i) == IF exists(fs, Dest(i)) THEN "rm_invalid" ELSE "clone"

\* The local state of a path (spec 4.2), as git.rs:84 tests it.
LocalState(f, p) ==
    IF ~exists(f, p) THEN "Absent"
    ELSE IF is_git_repo(f, p) THEN "PresentValid"
    ELSE "PresentInvalid"

\* A sync that clones afresh whatever is at the path.
JobCheck_always_clone(i) ==
    /\ JobMayStep(i)
    /\ jpc[i] = "check"
    /\ Goto(i, CloneEntry(i), <<>>)
    /\ jhist' = [jhist EXCEPT ![i].local = LocalState(fs, Dest(i))]
    /\ fs' = fs
    /\ UNCHANGED jobframe

\* A sync that pulls in a valid repository whatever the force flag.
JobCheck_ignore_force(i) ==
    /\ JobMayStep(i)
    /\ jpc[i] = "check"
    /\ LET valid == exists(fs, Dest(i)) /\ is_git_repo(fs, Dest(i))
       IN Goto(i, IF valid THEN "pull" ELSE CloneEntry(i), <<>>)
    /\ jhist' = [jhist EXCEPT ![i].local = LocalState(fs, Dest(i))]
    /\ fs' = fs
    /\ UNCHANGED jobframe

\* git.rs:84-109: the local state, computed fresh, picks the operation.
JobCheck(i) ==
    /\ JobMayStep(i)
    /\ jpc[i] = "check"
    /\ LET valid == exists(fs, Dest(i)) /\ is_git_repo(fs, Dest(i))
       IN Goto(i, IF valid THEN (IF force THEN "force" ELSE "pull")
                  ELSE CloneEntry(i), <<>>)
    /\ jhist' = [jhist EXCEPT ![i].local = LocalState(fs, Dest(i))]
    /\ fs' = fs
    /\ UNCHANGED jobframe

\* git.rs:89-105: git pull in the repository.
JobPull(i) ==
    /\ JobMayStep(i)
    /\ jpc[i] = "pull"
    /\ \/ /\ is_git_repo(fs, Dest(i))
          /\ Finish(i, TRUE, <<>>)
          /\ jhist' = jhist
       \/ \E stderr \in PullErrors :
            LET err == GitFailed(stderr)
            IN IF is_default_branch_error(err)
               THEN /\ Goto(i, "rm_reclone", err)
                    /\ jhist' = [jhist EXCEPT ![i].branch_changed = TRUE]
               ELSE /\ Finish(i, FALSE, err)
                    /\ jhist' = jhist
    /\ fs' = fs
    /\ UNCHANGED jobframe

\* git.rs:96-101: remove the repository before the re-clone.
JobRemoveBeforeReclone(i) ==
    /\ JobMayStep(i)
    /\ jpc[i] = "rm_reclone"
    /\ \/ /\ exists(fs, Dest(i))
          /\ fs' = remove_dir_all(fs, Dest(i))
          /\ Goto(i, "reclone", <<>>)
       \/ /\ fs' = fs
          /\ Finish(i, FALSE, <<"Failed to remove repository before re-clone">>)
    /\ jhist' = jhist
    /\ UNCHANGED jobframe

\* git.rs:102 into git.rs:226: the re-clone enters clone_repository.
JobReclone(i) ==
    /\ JobMayStep(i)
    /\ jpc[i] = "reclone"
    /\ Goto(i, CloneEntry(i), <<>>)
    /\ jhist' = jhist
    /\ fs' = fs
    /\ UNCHANGED jobframe

\* git.rs:226-230: remove the directory that has no .git.
JobRemoveInvalid(i) ==
    /\ JobMayStep(i)
    /\ jpc[i] = "rm_invalid"
    /\ \/ /\ exists(fs, Dest(i))
          /\ fs' = remove_dir_all(fs, Dest(i))
          /\ Goto(i, "clone", <<>>)
       \/ /\ fs' = fs
          /\ Finish(i, FALSE, <<"Failed to remove incomplete directory before cloning">>)
    /\ jhist' = jhist
    /\ UNCHANGED jobframe

\* git clone refuses a destination that exists and is not an empty directory.
CloneCanSucceed(f, p) == f[p] = "absent" \/ (f[p] = "dir" /\ IsEmptyDir(f, p))

\* A clone whose success leaves a directory that holds no repository.
JobClone_without_repository(i) ==
    /\ JobMayStep(i)
    /\ jpc[i] = "clone"
    /\ \/ /\ CloneCanSucceed(fs, Dest(i))
          /\ fs' = create_dir_all(fs, Dest(i))
          /\ Finish(i, TRUE, <<>>)
       \/ \E stderr \in CloneErrors, partial \in BOOLEAN :
            /\ fs' = IF partial /\ CloneCanSucceed(fs, Dest(i))
                     THEN create_dir_all(fs, Dest(i))
                     ELSE fs
            /\ Goto(i, "cleanup", GitFailed(stderr))
    /\ jhist' = jhist
    /\ UNCHANGED jobframe

\* git.rs:237: git clone <url> <path>.  A failed clone may leave the
\* directory it had begun to create.
JobClone(i) ==
    /\ JobMayStep(i)
    /\ jpc[i] = "clone"
    /\ \/ /\ CloneCanSucceed(fs, Dest(i))
          /\ fs' = [create_dir_all(fs, Dest(i)) EXCEPT ![Dest(i)] = "repo"]
          /\ Finish(i, TRUE, <<>>)
       \/ \E stderr \in CloneErrors, partial \in BOOLEAN :
            /\ fs' = IF partial /\ CloneCanSucceed(fs, Dest(i))
                     THEN create_dir_all(fs, Dest(i))
                     ELSE fs
            /\ Goto(i, "cleanup", GitFailed(stderr))
    /\ jhist' = jhist
    /\ UNCHANGED jobframe

\* A cleanup after which every failed clone is a skip.
JobCleanup_skip_any_failure(i) ==
    /\ JobMayStep(i)
    /\ jpc[i] = "cleanup"
    /\ \E removed \in BOOLEAN :
         fs' = IF removed THEN remove_dir_all(fs, Dest(i)) ELSE fs
    /\ Finish(i, TRUE, <<>>)
    /\ jhist' = [jhist EXCEPT ![i].takedown = is_dmca_error(jerr[i])]
    /\ UNCHANGED jobframe

\* git.rs:240-251: remove_dir_all(repo_path).await.ok(), then the takedown
\* is a skip (Ok) and any other failure is the job's error.
JobCleanup(i) ==
    /\ JobMayStep(i)
    /\ jpc[i] = "cleanup"
    /\ \E removed \in BOOLEAN :
         fs' = IF removed THEN remove_dir_all(fs, Dest(i)) ELSE fs
    /\ IF is_dmca_error(jerr[i])
       THEN /\ Finish(i, TRUE, <<>>)
            /\ jhist' = [jhist EXCEPT ![i].takedown = TRUE]
       ELSE /\ Finish(i, FALSE, jerr[i])
            /\ jhist' = jhist
    /\ UNCHANGED jobframe

\* git.rs:86-87: force_update(repo_path); git fails in a directory that is
\* no longer a repository.
JobForce(i) ==
    /\ JobMayStep(i)
    /\ jpc[i] = "force"
    /\ \E o \in ForceOutcomes :
         /\ o.ok => is_git_repo(fs, Dest(i))
         /\ Finish(i, o.ok, o.msg)
    /\ jhist' = jhist
    /\ fs' = fs
    /\ UNCHANGED jobframe

JobStep(i) ==
    \/ JobMkParent(i)
    \/ JobCheck(i)
    \/ JobPull(i)
    \/ JobRemoveBeforeReclone(i)
    \/ JobReclone(i)
    \/ JobRemoveInvalid(i)
    \/ JobClone(i)
    \/ JobCleanup(i)
    \/ JobForce(i)

\* A pool that hands over as soon as the stream is exhausted, with jobs
\* still in flight.
PoolCollected_when_submitted ==
    /\ pc = "pool"
    /\ submitted = count
    /\ pc' = IF exact_mirror THEN "prune" ELSE "summary"
    /\ UNCHANGED << args, repos_to_sync, desired_paths, fs, submitted, jpc, jerr, jhist,
                    results, todo, fs_at_prune, printed, exit, gitvars, fetchvars, probevars >>

\* stream.collect() returns when the stream is exhausted and no job is in
\* flight (main.rs:216); pruning comes next if requested (main.rs:221).
PoolCollected ==
    /\ pc = "pool"
    /\ submitted = count
    /\ InFlight = 0
    /\ pc' = IF exact_mirror THEN "prune" ELSE "summary"
    /\ UNCHANGED << args, repos_to_sync, desired_paths, fs, submitted, jpc, jerr, jhist,
                    results, todo, fs_at_prune, printed, exit, gitvars, fetchvars, probevars >>

----------------------------------------------------------------------------
(* Mirror reconciliation: existing_repo_paths and prune_extra_repos        *)
(* (main.rs:271-333)                                                       *)

pruneframe == << args, repos_to_sync, desired_paths, submitted, jpc, jerr, jhist,
                 results, printed, gitvars, fetchvars, probevars >>

\* The repositories directly under base_dir, and those one level deeper in
\* the directories under base_dir that are not repositories themselves.
existing_repo_paths(f, base_dir) ==
    IF ~exists(f, base_dir) THEN {}
    ELSE LET entries == {p \in Children(base_dir) : exists(f, p)}
         IN {p \in entries : is_git_repo(f, p)}
            \cup UNION {{q \in Children(p) : is_git_repo(f, q)} :
                        p \in {e \in entries : ~is_git_repo(f, e)}}

\* The directories directly under base_dir that are not repositories.
owner_dirs(f, base_dir) ==
    {p \in Children(base_dir) : exists(f, p) /\ ~is_git_repo(f, p)}

\* main.rs:305: the discovery, or the read_dir error that ends the run.
PruneScan ==
    /\ pc = "prune"
    /\ \/ /\ todo' = existing_repo_paths(fs, output_dir)
          /\ fs_at_prune' = fs
          /\ pc' = "prune_remove"
          /\ exit' = exit
       \/ /\ exists(fs, output_dir)
          /\ Return(Failure(<<"Failed to read directory">>))
          /\ UNCHANGED << todo, fs_at_prune >>
    /\ fs' = fs
    /\ UNCHANGED pruneframe

\* main.rs:306-314: one discovered repository; one outside the desired set
\* is removed, and a failed removal ends the run.
PruneRemove ==
    /\ pc = "prune_remove"
    /\ \E repo_path \in todo :
         \/ /\ repo_path \in desired_paths
            /\ todo' = todo \ {repo_path}
            /\ UNCHANGED << fs, pc, exit >>
         \/ /\ repo_path \notin desired_paths
            /\ fs' = remove_dir_all(fs, repo_path)
            /\ todo' = todo \ {repo_path}
            /\ UNCHANGED << pc, exit >>
         \/ /\ repo_path \notin desired_paths
            /\ Return(Failure(<<"Failed to remove outdated repository">>))
            /\ UNCHANGED << fs, todo >>
    /\ fs_at_prune' = fs_at_prune
    /\ UNCHANGED pruneframe

\* prune_extra_repos returns Ok: main goes on (main.rs:168-170, 222-226).
AfterPrune ==
    IF count = 0 THEN Return(Success) ELSE (pc' = "summary" /\ exit' = exit)

\* main.rs:317-318: the cleanup of empty owner directories starts.
PruneCleanupStart ==
    /\ pc = "prune_remove"
    /\ todo = {}
    /\ \/ /\ ~exists(fs, output_dir)
          /\ AfterPrune
          /\ todo' = todo
       \/ /\ exists(fs, output_dir)
          /\ todo' = owner_dirs(fs, output_dir)
          /\ pc' = "prune_cleanup"
          /\ exit' = exit
       \/ /\ exists(fs, output_dir)
          /\ Return(Failure(<<"Failed to read directory">>))
          /\ todo' = todo
    /\ UNCHANGED << fs, fs_at_prune >>
    /\ UNCHANGED pruneframe

\* main.rs:319-329: one non-repository directory under the output root; an
\* empty one is removed, and the result of that removal is dropped (.ok()).
PruneCleanupEntry ==
    /\ pc = "prune_cleanup"
    /\ \E path \in todo :
         \/ /\ ~IsEmptyDir(fs, path)
            /\ todo' = todo \ {path}
            /\ UNCHANGED << fs, pc, exit >>
         \/ /\ IsEmptyDir(fs, path)
            /\ \E removed \in BOOLEAN :
                 fs' = IF removed THEN remove_dir_all(fs, path) ELSE fs
            /\ todo' = todo \ {path}
            /\ UNCHANGED << pc, exit >>
         \/ /\ Return(Failure(<<"Failed to read directory">>))
            /\ UNCHANGED << fs, todo >>
    /\ fs_at_prune' = fs_at_prune
    /\ UNCHANGED pruneframe

\* main.rs:332: Ok(()).
PruneReturn ==
    /\ pc = "prune_cleanup"
    /\ todo = {}
    /\ AfterPrune
    /\ UNCHANGED << fs, todo, fs_at_prune >>
    /\ UNCHANGED pruneframe

----------------------------------------------------------------------------
(* The error summary (main.rs:225-238) *)

FailedResults == SelectSeq(results, LAMBDA r : ~r.ok)

\* A summary that returns Ok whatever the results.
Summary_always_ok ==
    /\ pc = "summary"
    /\ printed' = printed
    /\ Return(Success)
    /\ UNCHANGED << args, repos_to_sync, desired_paths, fs, submitted, jpc, jerr, jhist,
                    results, todo, fs_at_prune, gitvars, fetchvars, probevars >>

Summary ==
    /\ pc = "summary"
    /\ IF FailedResults # <<>>
       THEN /\ printed' = [k \in 1..Len(FailedResults) |->
                             [name |-> FailedResults[k].name, msg |-> FailedResults[k].msg]]
            /\ Return(Failure(<<"Synchronization finished with errors.">>))
       ELSE /\ printed' = printed
            /\ Return(Success)
    /\ UNCHANGED << args, repos_to_sync, desired_paths, fs, submitted, jpc, jerr, jhist,
                    results, todo, fs_at_prune, gitvars, fetchvars, probevars >>

----------------------------------------------------------------------------
(* The run *)

Next ==
    \/ FetchFails
    \/ FetchNoAccounts
    \/ FetchRepos
    \/ MakeOutputDir
    \/ PoolAdmit
    \/ \E i \in Jobs : JobStep(i)
    \/ PoolCollected
    \/ PruneScan
    \/ PruneRemove
    \/ PruneCleanupStart
    \/ PruneCleanupEntry
    \/ PruneReturn
    \/ Summary

Spec == Init /\ [][Next]_vars

----------------------------------------------------------------------------
(* force_update and current_upstream on their own: every combination of    *)
(* git answers, then the two functions applied to it.                      *)

runvars == << concurrency, force, exact_mirror, repos_to_sync, desired_paths, fs,
              pc, submitted, jpc, jerr, jhist, results, todo, fs_at_prune, printed, exit >>

InitForce ==
    /\ genv \in GitEnvs
    /\ gout = NoForceResult
    /\ uout = NoUpstream
    /\ concurrency = 1
    /\ force = TRUE
    /\ exact_mirror = FALSE
    /\ fs = [q \in Paths |-> "absent"]
    /\ repos_to_sync = <<>>
    /\ desired_paths = {}
    /\ pc = "force_update"
    /\ submitted = 0
    /\ jpc = <<>>
    /\ jerr = <<>>
    /\ jhist = <<>>
    /\ results = <<>>
    /\ todo = {}
    /\ fs_at_prune = NotScanned
    /\ printed = <<>>
    /\ exit = Running
    /\ NotFetching
    /\ NotProbing
    /\ run = 1

ForceUpdate ==
    /\ pc = "force_update"
    /\ gout = NoForceResult
    /\ gout' = force_update(genv)
    /\ UNCHANGED << genv, uout, runvars, fetchvars, probevars >>

CurrentUpstream ==
    /\ pc = "force_update"
    /\ uout = NoUpstream
    /\ uout' = current_upstream(genv)
    /\ UNCHANGED << genv, gout, runvars, fetchvars, probevars >>

NextForce == ForceUpdate \/ CurrentUpstream

SpecForce == InitForce /\ [][NextForce]_vars

----------------------------------------------------------------------------
(* Properties of the job pool and of the run's end *)

\* C1: in every reachable state of a run the number of jobs that have
\* started and not yet produced their outcome is at most the configured
\* concurrency limit (also when more jobs are submitted than the limit).
C1_ConcurrencyBound == InFlight <= concurrency

\* C1 witness: the limit is below the number of jobs, the pool is full and a
\* job is still waiting in the stream.
C1_PoolFullWitness ==
    /\ pc = "pool"
    /\ concurrency >= 1
    /\ concurrency < count
    /\ InFlight = concurrency
    /\ submitted < count

\* Job i has taken a step: its position changed.
Stepped(i) == jpc'[i] # jpc[i]

\* C2: no step of one job creates, deletes or modifies the destination path
\* of another job of the run, or anything beneath it.
C2_OnlyOwnJobTouchesPath ==
    [][\A i \in Jobs : \A k \in Jobs \ {i} :
          (pc = "pool" /\ Stepped(i)) => Under(fs', Dest(k)) = Under(fs, Dest(k))]_vars

\* The run has left the job pool it had started.
PoolLeft ==
    /\ count > 0
    /\ \/ pc \in {"prune", "prune_remove", "prune_cleanup", "summary"}
       \/ pc = "exit" /\ exit.msg # <<"Failed to create output directory">>

\* The pool can move: take a job, step a job it holds, or hand over the results.
PoolCanMove ==
    ENABLED (PoolAdmit \/ (\E i \in Jobs : JobStep(i)) \/ PoolCollected)

\* C3 as claimed: once the job pool is started every retained repository's
\* job is started and runs to its own outcome, whatever the other jobs did:
\* the pool is left only when every job has its outcome, and while it runs
\* it can always move (take a queued job, step a job in flight or hand over
\* the collected results).
C3_EveryJobRunsToOutcome ==
    /\ PoolLeft => /\ \A i \in Jobs : jpc[i] = "done"
                   /\ Len(results) = count
    /\ pc = "pool" => PoolCanMove

AggregateError == <<"Synchronization finished with errors.">>

PruneErrors == {<<"Failed to read directory">>, <<"Failed to remove outdated repository">>}

FailedLines ==
    [k \in 1..Len(FailedResults) |->
        [name |-> FailedResults[k].name, msg |-> FailedResults[k].msg]]

\* C4 as claimed: a run in which a job failed ends with the aggregate error
\* after printing every failed job's name and message, whatever the
\* reconciliation's result; a run ends in success only if no job failed.
C4_FailedJobsAlwaysReported ==
    pc = "exit" =>
        /\ FailedResults # <<>> => (exit = Failure(AggregateError) /\ printed = FailedLines)
        /\ exit.code = "success" => FailedResults = <<>>

\* C4 amended: a run in which a job failed ends in failure; it ends with the
\* aggregate error after printing every failed job's name and message when
\* reconciliation was not requested or returned Ok, and with the
\* reconciliation's error, no failed job printed, when reconciliation
\* failed.  A run ends in success only if no job failed.
C4_FailedJobsReportedUnlessPruneFails ==
    pc = "exit" =>
        /\ FailedResults # <<>> =>
             \/ exit = Failure(AggregateError) /\ printed = FailedLines
             \/ /\ exact_mirror
                /\ exit.code = "failure"
                /\ exit.msg \in PruneErrors
                /\ printed = <<>>
        /\ exit.code = "success" => FailedResults = <<>>

\* C4 witness: a job failed, the requested reconciliation returned Ok and
\* the run ended with the aggregate error, the failed job printed.
C4_AggregateErrorWitness ==
    /\ pc = "exit"
    /\ exact_mirror
    /\ FailedResults # <<>>
    /\ exit = Failure(AggregateError)
    /\ printed = FailedLines

----------------------------------------------------------------------------
(* Properties of mirror reconciliation *)

\* prune_extra_repos has run and returned Ok.
PruneSucceeded ==
    /\ fs_at_prune # NotScanned
    /\ \/ pc = "summary"
       \/ pc = "exit" /\ exit.msg \notin PruneErrors

\* The repositories the discovery finds in the tree prune_extra_repos met.
Discovered == existing_repo_paths(fs_at_prune, output_dir)

\* An owner directory whose only entry, when the reconciliation started, was
\* one discovered repository outside the desired set.
EmptiedOwnerDirs ==
    {d \in Children(output_dir) :
        /\ fs_at_prune[d] = "dir"
        /\ \E q \in Children(d) :
             /\ q \in Discovered \ desired_paths
             /\ \A r \in Children(d) \ {q} : ~exists(fs_at_prune, r)}

\* C5 as claimed: after prune_extra_repos succeeds every discovered
\* repository outside the desired set is gone, every repository at a desired
\* path is as it was before the reconciliation, and an owner directory that
\* became empty because its only repository was removed is gone too.
C5_PruneDeletesExactlyUndesired ==
    PruneSucceeded =>
        /\ \A p \in Discovered \ desired_paths : ~exists(fs, p)
        /\ \A p \in desired_paths :
             is_git_repo(fs_at_prune, p) => Under(fs, p) = Under(fs_at_prune, p)
        /\ \A d \in EmptiedOwnerDirs : ~exists(fs, d)

\* The run has ended in failure at this step.
EndsInFailure == pc' = "exit" /\ exit'.code = "failure"

\* C6 as claimed: every deletion failure during mirror reconciliation is
\* fatal.  A step of the removal loop either ends the run in failure or
\* leaves no handled repository outside the desired set on disk, and a step
\* of the owner-directory cleanup either ends the run in failure or leaves
\* no handled empty directory on disk.
C6_PruneDeletionFailureFatal ==
    [][/\ (pc = "prune_remove" /\ todo # {}) =>
             \/ EndsInFailure
             \/ \A p \in (todo \ todo') \ desired_paths : ~exists(fs', p)
       /\ pc = "prune_cleanup" =>
             \/ EndsInFailure
             \/ \A p \in todo \ todo' : IsEmptyDir(fs, p) => ~exists(fs', p)]_vars

----------------------------------------------------------------------------
(* Properties of one job's recovery transitions *)

\* At this step job i returned, and its result is the one just collected.
Reported(i, ok) ==
    /\ jpc'[i] = "done"
    /\ Len(results') = Len(results) + 1
    /\ results'[Len(results')].name = repos_to_sync[i].name
    /\ results'[Len(results')].ok = ok

ReportedWith(i, ok, msg) ==
    /\ Reported(i, ok)
    /\ results'[Len(results')].msg = msg

\* The text holds both parts of the default-branch-changed signature.
HasBothRefTexts(text) ==
    /\ \E k \in 1..Len(text) : text[k] = MergeRefText
    /\ \E k \in 1..Len(text) : text[k] = NoSuchRefText

\* The pull of job i failed at this step with this error text.
PullFailedWith(i, text) ==
    /\ jpc[i] = "pull"
    /\ \/ jpc'[i] = "rm_reclone" /\ jerr'[i] = text
       \/ ReportedWith(i, FALSE, text)

PullFailureTexts == {GitFailed(stderr) : stderr \in PullErrors}

RemoveBeforeRecloneError == <<"Failed to remove repository before re-clone">>

ResultOf(i, k) == k \in 1..Len(results) /\ results[k].name = repos_to_sync[i].name

HasTakedownMarker(text) == \E k \in 1..Len(text) : text[k] \in {"dmca", "Dmca", "DMCA"}

\* The clone of job i has failed with this text and the job is at the
\* cleanup that follows (git.rs:240).
CloneFailedWith(i, text) == jpc[i] = "cleanup" /\ jerr[i] = text /\ Stepped(i)

CloneFailureTexts == {GitFailed(stderr) : stderr \in CloneErrors}

----------------------------------------------------------------------------
(* Properties of force_update and of the upstream resolution *)

Invoked(cmd, calls) == \E k \in 1..Len(calls) : calls[k] = cmd

\* What each strategy resolves to in a repository, taken on its own.
Resolves1(env) == env.upstream.ok
Value1(env) == Trim(env.upstream.out)

BranchNamed(env) == env.branch.ok /\ Trim(env.branch.out) # <<>>
Resolves2(env) == BranchNamed(env) /\ env.verify.ok
Value2(env) == <<"origin/">> \o Trim(env.branch.out)

Resolves3(env) == env.head.ok /\ Trim(env.head.out) # <<>>
Value3(env) == Trim(env.head.out)

Resolves4(env) == env.refs.ok /\ FirstNonBlankLine(Trim(env.refs.out)) # <<>>
Value4(env) == FirstNonBlankLine(Trim(env.refs.out))

NoneResolves(env) ==
    ~Resolves1(env) /\ ~Resolves2(env) /\ ~Resolves3(env) /\ ~Resolves4(env)

\* The git calls of strategy 2: the existence of origin/<branch> is asked
\* only for a branch name that is not empty.
Calls2(env) == IF BranchNamed(env) THEN <<CmdBranch, CmdVerify>> ELSE <<CmdBranch>>

\* The reference the first resolving strategy gives.
FirstResolved(env) ==
    IF Resolves1(env) THEN Value1(env)
    ELSE IF Resolves2(env) THEN Value2(env)
    ELSE IF Resolves3(env) THEN Value3(env)
    ELSE Value4(env)

ForceUpdated == gout # NoForceResult

\* C9 as claimed: the force-update of a repository with zero commits, its
\* fetch done, completes successfully without invoking the hard reset,
\* whatever the remote refs are after the fetch.
C9_ZeroCommitNeverReset ==
    (ForceUpdated /\ genv.fetch.ok /\ genv.commits = "no") =>
        /\ gout.ok
        /\ ~Invoked(CmdReset, gout.calls)

\* C9 amended: the force-update of a repository with zero commits, its
\* fetch done, completes successfully without invoking the hard reset when
\* no strategy of the upstream resolution resolves.  When a strategy
\* resolves (remote branches now exist under origin, say) the hard reset is
\* invoked on the resolved reference and the force-update succeeds exactly
\* when that reset does.
C9_ZeroCommitResetOnlyIfResolved ==
    (ForceUpdated /\ genv.fetch.ok /\ genv.commits = "no") =>
        IF NoneResolves(genv)
        THEN /\ gout.ok
             /\ ~Invoked(CmdReset, gout.calls)
        ELSE /\ Invoked(CmdReset, gout.calls)
             /\ gout.reset_to = FirstResolved(genv)
             /\ gout.ok = genv.reset.ok

\* C9 witness: a repository with zero commits and nothing to resolve was
\* force-updated: success, the commit check made and no reset.
C9_NoOpSuccessWitness ==
    /\ ForceUpdated
    /\ genv.fetch.ok
    /\ genv.commits = "no"
    /\ NoneResolves(genv)
    /\ gout.ok
    /\ Invoked(CmdCommits, gout.calls)
    /\ ~Invoked(CmdReset, gout.calls)

UpstreamResolved == uout # NoUpstream

\* C10: the upstream resolution tries (1) the recorded upstream, (2)
\* origin/<current branch> for a branch name that is not empty and a remote
\* ref that exists, (3) the remote's symbolic HEAD, (4) the most recently
\* committed remote branch; its result is the value of the first strategy
\* that resolves and no later strategy is consulted.  Only when none
\* resolves is the commit check made: no commits gives "no upstream", and
\* otherwise the resolution fails.
C10_FirstResolvingStrategyWins ==
    UpstreamResolved =>
        IF Resolves1(genv)
        THEN uout = UpSome(Value1(genv), <<CmdUpstream>>)
        ELSE IF Resolves2(genv)
        THEN uout = UpSome(Value2(genv), <<CmdUpstream, CmdBranch, CmdVerify>>)
        ELSE IF Resolves3(genv)
        THEN uout = UpSome(Value3(genv), <<CmdUpstream>> \o Calls2(genv) \o <<CmdHead>>)
        ELSE IF Resolves4(genv)
        THEN uout = UpSome(Value4(genv),
                           <<CmdUpstream>> \o Calls2(genv) \o <<CmdHead, CmdRefs>>)
        ELSE /\ uout.calls = <<CmdUpstream>> \o Calls2(genv) \o <<CmdHead, CmdRefs, CmdCommits>>
             /\ uout.kind = IF genv.commits = "no" THEN "none" ELSE "err"

\* C10 witness: strategies 1 and 2 do not resolve, 3 and 4 both would; the
\* result is strategy 3's and strategy 4 was not consulted.
C10_ThirdBeforeFourthWitness ==
    /\ UpstreamResolved
    /\ ~Resolves1(genv)
    /\ ~Resolves2(genv)
    /\ Resolves3(genv)
    /\ Resolves4(genv)
    /\ uout.kind = "some"
    /\ uout.ref = <<"origin/", "dev">>
    /\ ~Invoked(CmdRefs, uout.calls)

----------------------------------------------------------------------------
(* sync_repository run twice in a row on one destination *)

InitTwice ==
    /\ concurrency = 1
    /\ force \in BOOLEAN
    /\ exact_mirror = FALSE
    /\ fs \in {f \in DiskStates : exists(f, output_dir)}
    /\ repos_to_sync \in {<<r>> : r \in Repos}
    /\ desired_paths = DesiredPaths(repos_to_sync)
    /\ pc = "pool"
    /\ submitted = 1
    /\ jpc = <<"mkparent">>
    /\ jerr = << <<>> >>
    /\ jhist = <<NoHistory>>
    /\ results = <<>>
    /\ todo = {}
    /\ fs_at_prune = NotScanned
    /\ printed = <<>>
    /\ exit = Running
    /\ genv = None
    /\ gout = NoForceResult
    /\ uout = NoUpstream
    /\ NotFetching
    /\ NotProbing
    /\ run = 1

\* The first sync_repository has returned; the second is called with the
\* same repository, destination and force flag.
SyncAgain ==
    /\ pc = "pool"
    /\ run = 1
    /\ jpc[1] = "done"
    /\ run' = 2
    /\ jpc' = <<"mkparent">>
    /\ UNCHANGED << args, repos_to_sync, desired_paths, fs, pc, submitted, jerr, jhist,
                    results, todo, fs_at_prune, printed, exit, gitvars, fetchvars, probe >>

NextTwice == JobStep(1) \/ SyncAgain

SpecTwice == InitTwice /\ [][NextTwice]_vars

\* No step has failed so far, in either run: no git process (a clone that
\* met a takedown and a pull that met a changed default branch are failed
\* processes) and no filesystem call.
NothingFailed ==
    /\ ~jhist[1].takedown
    /\ ~jhist[1].branch_changed
    /\ jpc[1] \notin {"cleanup", "rm_reclone"}
    /\ \A k \in 1..Len(results) : results[k].ok

\* C11 as claimed: with nothing failing, the second run finds the path
\* PresentValid and performs only a fast-update (git pull): no step of it
\* changes the local path, deletes or clones.
C11_SecondRunOnlyFastUpdate ==
    [][(run = 2 /\ NothingFailed /\ NothingFailed') =>
          /\ fs' = fs
          /\ jpc[1] = "check" =>
               (LocalState(fs, Dest(1)) = "PresentValid" /\ jpc'[1] = "pull")
          /\ jpc'[1] \in {"check", "pull", "done"}]_vars

\* C11 amended: when no step of either run fails (no git process and no
\* filesystem call), the second run finds the path PresentValid and
\* performs only the update of a valid repository, a fast-update with the
\* force flag unset and a force-update with it set, with no deletion and no
\* clone; the local path is in the same state after the second run as
\* after the first.
C11_SecondRunOnlyUpdates ==
    [][(run = 2 /\ NothingFailed /\ NothingFailed') =>
          /\ fs' = fs
          /\ jpc[1] = "check" =>
               /\ LocalState(fs, Dest(1)) = "PresentValid"
               /\ jpc'[1] = IF force THEN "force" ELSE "pull"
          /\ jpc'[1] \in {"check", "pull", "force", "done"}]_vars

\* C11 witness: both runs have returned Ok, the second one found the path
\* PresentValid with the force flag unset, and the path holds the repository.
C11_TwoRunsWitness ==
    /\ run = 2
    /\ ~force
    /\ jpc[1] = "done"
    /\ Len(results) = 2
    /\ results[1].ok /\ results[2].ok
    /\ jhist[1].local = "PresentValid"
    /\ ~jhist[1].takedown
    /\ fs[Dest(1)] = "repo"

----------------------------------------------------------------------------
(* The fetch of the repository list (github.rs, main.rs:72-152), against   *)
(* a hosting API that answers each page request of each query.             *)

\* Most responses the API holds for one query; every later page is empty.
MaxPages == 2

SyncSources == {"own", "stars", "following", "followers", "watched"}
FanOut == {"following", "followers"}

\* What one page request returns: a decoded page, or one of the three
\* failures of fetch_paginated.
ErrorKinds == {"transport", "status", "decode"}
PageOf(items) == [ok |-> TRUE, items |-> items, err |-> "none"]
PageError(kind) == [ok |-> FALSE, items |-> <<>>, err |-> kind]

\* The accounts the root user follows or is followed by.
Accounts == {"bob", "carol"}

\* The repositories each query can list.  Both accounts list org/s, each
\* with its own entry.
OrgFromBob   == [name |-> "s", owner |-> "org", full_name |-> "org/s", fork |-> FALSE]
OrgFromCarol == [name |-> "s", owner |-> "org", full_name |-> "org/s", fork |-> TRUE]
BobX         == [name |-> "x", owner |-> "bob", full_name |-> "bob/x", fork |-> FALSE]

ListedBy(account) == IF account = "bob" THEN {OrgFromBob, BobX} ELSE {OrgFromCarol}

\* fetch_watched_repos (called at main.rs:132): a specialization of the
\* paginated fetch on the endpoint of the watched repositories.
WatchedQuery == <<"subscriptions", username>>

\* The endpoint each fetch function asks, as (kind, account).
ListQuery(source) ==
    CASE source = "own" -> <<"repos", username>>
      [] source = "stars" -> <<"starred", username>>
      [] source = "following" -> <<"following", username>>
      [] source = "followers" -> <<"followers", username>>
      [] source = "watched" -> WatchedQuery

ReposQuery(account) == <<"repos", account>>

Queries == {ListQuery(src) : src \in SyncSources} \cup {ReposQuery(a) : a \in Accounts}

\* The response sequences of one query: at most MaxPages responses, and
\* nothing after a failure.
ResponseSeqs(responses) ==
    {s \in UNION {[1..n -> responses] : n \in 0..MaxPages} :
        \A k \in 1..(Len(s) - 1) : s[k].ok}

Failures == {PageError(kind) : kind \in ErrorKinds}
OnePages(items) == {PageOf(<<x>>) : x \in items}
TwoPages(items) == {PageOf(<<x, y>>) : x \in items, y \in items}

\* Own and starred lists: pages of one or two repositories in any order,
\* repeated or not, and an empty page anywhere.
RepoListSources == ResponseSeqs(OnePages(Repos) \cup TwoPages(Repos) \cup {PageOf(<<>>)} \cup Failures)
AccountListSources == ResponseSeqs(OnePages(Accounts) \cup Failures)
AccountRepoSources(account) == ResponseSeqs(OnePages(ListedBy(account)) \cup Failures)

\* The APIs a run in the given mode can meet.
ApisOf(source) ==
    IF source \in FanOut
    THEN {[q \in Queries |->
             IF q = ListQuery(source) THEN l
             ELSE IF q = ReposQuery("bob") THEN b
             ELSE IF q = ReposQuery("carol") THEN c
             ELSE <<>>] :
          l \in AccountListSources, b \in AccountRepoSources("bob"),
          c \in AccountRepoSources("carol")}
    ELSE {[q \in Queries |-> IF q = ListQuery(source) THEN l ELSE <<>>] :
          l \in RepoListSources}

\* The response to the request for one page of a query.
Respond(q, p) == IF p <= Len(api[q]) THEN api[q][p] ELSE PageOf(<<>>)

\* fetch_paginated is entered: page 1, no items (github.rs:43-44).
Paginate(f, at, q) ==
    [f EXCEPT !.at = at, !.query = q, !.page = 1, !.items = <<>>, !.result = "pending"]

\* main.rs:72: the fetch function of the mode is called.
StartFetch(source) ==
    Paginate([source |-> source, at |-> "", query |-> <<>>, page |-> 0, items |-> <<>>,
              result |-> "", err |-> "none", requests |-> <<>>, usernames |-> <<>>,
              uidx |-> 0, seen_users |-> {}, repos_by_full_name |-> {}],
             IF source \in FanOut THEN "accounts" ELSE "list", ListQuery(source))

\* The local tree a run starts on: nothing, or the mirror an earlier run
\* left under the output directory (z, and x of bob).
EmptyDisk == [q \in Paths |-> "absent"]
MirroredDisk == [q \in Paths |-> IF q \in {<<>>, <<"bob">>} THEN "dir" ELSE "repo"]
FetchDisks == {EmptyDisk, MirroredDisk}

InitFetch ==
    /\ fetch \in {StartFetch(src) : src \in SyncSources}
    /\ api \in ApisOf(fetch.source)
    /\ all_repos = <<>>
    /\ include_forks \in BOOLEAN
    /\ concurrency = 1
    /\ force = FALSE
    /\ exact_mirror \in BOOLEAN
    /\ fs \in FetchDisks
    /\ repos_to_sync = <<>>
    /\ desired_paths = {}
    /\ pc = "fetch"
    /\ submitted = 0
    /\ jpc = <<>>
    /\ jerr = <<>>
    /\ jhist = <<>>
    /\ results = <<>>
    /\ todo = {}
    /\ fs_at_prune = NotScanned
    /\ printed = <<>>
    /\ exit = Running
    /\ genv = None
    /\ gout = NoForceResult
    /\ uout = NoUpstream
    /\ NotProbing
    /\ run = 1

\* What the fetch leaves alone in main and in the other harnesses.
fetchframe == << args, fs, submitted, results, todo, fs_at_prune, printed, gitvars,
                 api, include_forks, probevars >>
jobsunset == << repos_to_sync, desired_paths, jpc, jerr, jhist >>

Paging == pc = "fetch" /\ fetch # <<>> /\ fetch.result = "pending"
Paged(at) == pc = "fetch" /\ fetch # <<>> /\ fetch.at = at /\ fetch.result # "pending"

Requested(f) == Append(f.requests, [query |-> f.query, page |-> f.page])

\* A fetch_paginated that returns after its first page.
FetchPage_first_only ==
    /\ Paging
    /\ LET r == Respond(fetch.query, fetch.page)
       IN fetch' =
            IF ~r.ok
            THEN [fetch EXCEPT !.requests = Requested(fetch), !.result = "err", !.err = r.err]
            ELSE [fetch EXCEPT !.requests = Requested(fetch), !.result = "ok",
                               !.items = @ \o r.items]
    /\ UNCHANGED << pc, exit, all_repos, jobsunset, fetchframe >>

\* github.rs:46-78: one turn of fetch_paginated's loop.  The page is
\* requested; a failed request, status or decode returns the error, an
\* empty page ends the loop with the items so far, and any other page is
\* appended before the next page is asked.
FetchPage ==
    /\ Paging
    /\ LET r == Respond(fetch.query, fetch.page)
       IN fetch' =
            IF ~r.ok
            THEN [fetch EXCEPT !.requests = Requested(fetch), !.result = "err", !.err = r.err]
            ELSE IF r.items = <<>>
            THEN [fetch EXCEPT !.requests = Requested(fetch), !.result = "ok"]
            ELSE [fetch EXCEPT !.requests = Requested(fetch), !.items = @ \o r.items,
                               !.page = @ + 1]
    /\ UNCHANGED << pc, exit, all_repos, jobsunset, fetchframe >>

\* The error text of fetch_paginated (github.rs:49-69).
FetchErrorText(kind) ==
    CASE kind = "transport" -> <<"Failed to connect to GitHub API">>
      [] kind = "status" -> <<"GitHub API error">>
      [] kind = "decode" -> <<"Failed to parse GitHub API JSON response">>

FanOutContext == <<"Failed to fetch repositories for user">>

Finished(f) == [f EXCEPT !.at = "done", !.result = "returned"]

\* main.rs:72-82, 123-134: fetch_all_repos, fetch_starred_repos or
\* fetch_watched_repos has returned; its list goes to the fork filter, its
\* error ends the run.
ListFetched ==
    /\ Paged("list")
    /\ fetch' = Finished(fetch)
    /\ IF fetch.result = "err"
       THEN /\ Return(Failure(FetchErrorText(fetch.err)))
            /\ UNCHANGED << all_repos, jobsunset >>
       ELSE /\ all_repos' = fetch.items
            /\ Retain(fetch.items, include_forks)
    /\ UNCHANGED fetchframe

\* A run that goes on to the reconciliation of an exact mirror when the
\* account list is empty.
AccountsFetched_prune_when_exact ==
    /\ Paged("accounts")
    /\ IF fetch.result = "err"
       THEN /\ fetch' = Finished(fetch)
            /\ Return(Failure(FetchErrorText(fetch.err)))
            /\ UNCHANGED jobsunset
       ELSE IF fetch.items = <<>>
       THEN /\ fetch' = Finished(fetch)
            /\ Retain(<<>>, include_forks)
       ELSE /\ fetch' = [fetch EXCEPT !.at = "next_user", !.result = "", !.usernames = fetch.items,
                                      !.uidx = 1]
            /\ UNCHANGED << pc, exit, jobsunset >>
    /\ UNCHANGED << all_repos, fetchframe >>

\* main.rs:83-91, 103-111: the account list has returned; an empty list
\* ends the run in success, an error ends it, and otherwise
\* fetch_repos_for_users starts with its first username.
AccountsFetched ==
    /\ Paged("accounts")
    /\ IF fetch.result = "err"
       THEN /\ fetch' = Finished(fetch)
            /\ Return(Failure(FetchErrorText(fetch.err)))
       ELSE IF fetch.items = <<>>
       THEN /\ fetch' = Finished(fetch)
            /\ Return(Success)
       ELSE /\ fetch' = [fetch EXCEPT !.at = "next_user", !.result = "", !.usernames = fetch.items,
                                      !.uidx = 1]
            /\ UNCHANGED << pc, exit >>
    /\ UNCHANGED << all_repos, jobsunset, fetchframe >>

\* A merge in which the entry inserted last replaces the earlier one.
RECURSIVE InsertAll_last_wins(_, _)
InsertAll_last_wins(map, repos) ==
    IF repos = <<>> THEN map
    ELSE InsertAll_last_wins({e \in map : e.full_name # Head(repos).full_name}
                             \cup {Head(repos)},
                             Tail(repos))

\* HashMap::entry(full_name).or_insert(repo), for each repository in order.
RECURSIVE InsertAll(_, _)
InsertAll(map, repos) ==
    IF repos = <<>> THEN map
    ELSE InsertAll(IF \E e \in map : e.full_name = Head(repos).full_name
                   THEN map
                   ELSE map \cup {Head(repos)},
                   Tail(repos))

\* A sort in descending order of full_name.
RECURSIVE InsertSorted_descending(_, _)
InsertSorted_descending(sorted, r) ==
    IF sorted = <<>> THEN <<r>>
    ELSE IF Rank(r.full_name) > Rank(Head(sorted).full_name) THEN <<r>> \o sorted
    ELSE <<Head(sorted)>> \o InsertSorted_descending(Tail(sorted), r)

\* Vec::sort_by on full_name: insertion into an ordered sequence.
RECURSIVE InsertSorted(_, _)
InsertSorted(sorted, r) ==
    IF sorted = <<>> THEN <<r>>
    ELSE IF Rank(r.full_name) < Rank(Head(sorted).full_name) THEN <<r>> \o sorted
    ELSE <<Head(sorted)>> \o InsertSorted(Tail(sorted), r)

RECURSIVE SortedValues(_)
SortedValues(map) ==
    IF map = {} THEN <<>>
    ELSE LET r == CHOOSE e \in map : TRUE
         IN InsertSorted(SortedValues(map \ {r}), r)

\* A fan-out that leaves out an account whose fetch failed and goes on.
UserReposFetched_skip_failed ==
    /\ Paged("user_repos")
    /\ fetch' = [fetch EXCEPT !.at = "next_user", !.result = "",
                              !.repos_by_full_name =
                                  IF fetch.result = "err" THEN @ ELSE InsertAll(@, fetch.items),
                              !.uidx = @ + 1]
    /\ UNCHANGED << pc, exit, all_repos, jobsunset, fetchframe >>

\* github.rs:159-167: one account's repositories have returned; they are
\* merged, or the error ends fetch_repos_for_users and the run.
UserReposFetched ==
    /\ Paged("user_repos")
    /\ IF fetch.result = "err"
       THEN /\ fetch' = Finished(fetch)
            /\ Return(Failure(FanOutContext))
       ELSE /\ fetch' = [fetch EXCEPT !.at = "next_user", !.result = "",
                                      !.repos_by_full_name = InsertAll(@, fetch.items),
                                      !.uidx = @ + 1]
            /\ UNCHANGED << pc, exit >>
    /\ UNCHANGED << all_repos, jobsunset, fetchframe >>

\* github.rs:152-156, 170-174: the next username; one seen before is
\* skipped, and after the last one the values are sorted and returned.
NextUser ==
    /\ pc = "fetch"
    /\ fetch # <<>>
    /\ fetch.at = "next_user"
    /\ IF fetch.uidx > Len(fetch.usernames)
       THEN /\ fetch' = Finished(fetch)
            /\ all_repos' = SortedValues(fetch.repos_by_full_name)
            /\ Retain(SortedValues(fetch.repos_by_full_name), include_forks)
       ELSE /\ IF fetch.usernames[fetch.uidx] \in fetch.seen_users
               THEN fetch' = [fetch EXCEPT !.uidx = @ + 1]
               ELSE fetch' = Paginate([fetch EXCEPT !.seen_users =
                                          @ \cup {fetch.usernames[fetch.uidx]}],
                                      "user_repos",
                                      ReposQuery(fetch.usernames[fetch.uidx]))
            /\ UNCHANGED << pc, exit, all_repos, jobsunset >>
    /\ UNCHANGED fetchframe

NextFetch ==
    \/ FetchPage
    \/ ListFetched
    \/ AccountsFetched
    \/ UserReposFetched
    \/ NextUser

SpecFetch == InitFetch /\ [][NextFetch]_vars

----------------------------------------------------------------------------
(* Properties of the fetch.                                                 *)

\* What the API lists for a query, read off its responses: the items of
\* the pages before the first empty page or failure.
RECURSIVE ListingFrom(_, _)
ListingFrom(q, p) ==
    IF p > Len(api[q]) \/ ~api[q][p].ok \/ api[q][p].items = <<>> THEN <<>>
    ELSE api[q][p].items \o ListingFrom(q, p + 1)

Listing(q) == ListingFrom(q, 1)

\* The number of pages of a query before its first empty page or failure.
RECURSIVE FullPagesFrom(_, _)
FullPagesFrom(q, p) ==
    IF p > Len(api[q]) \/ ~api[q][p].ok \/ api[q][p].items = <<>> THEN 0
    ELSE 1 + FullPagesFrom(q, p + 1)

FullPages(q) == FullPagesFrom(q, 1)

FullNamesOf(list) == {list[k].full_name : k \in 1..Len(list)}
FirstNamed(list, n) == list[CHOOSE k \in 1..Len(list) :
                              /\ list[k].full_name = n
                              /\ \A j \in 1..(k - 1) : list[j].full_name # n]

\* fetch_repos_for_users has returned Ok with its list.
Aggregated ==
    /\ fetch # <<>>
    /\ fetch.source \in FanOut
    /\ fetch.at = "done"
    /\ fetch.usernames # <<>>
    /\ fetch.uidx > Len(fetch.usernames)

\* The positions of the usernames whose listing holds the full name.
Listers(n) == {k \in 1..Len(fetch.usernames) :
                 n \in FullNamesOf(Listing(ReposQuery(fetch.usernames[k])))}
ListedByTwo(n) == Cardinality({fetch.usernames[k] : k \in Listers(n)}) >= 2
FirstLister(n) == fetch.usernames[CHOOSE k \in Listers(n) : \A j \in Listers(n) : k <= j]

\* C12: when fetch_repos_for_users returns, every full name listed by two
\* or more of the accounts has exactly one entry in the result, and that
\* entry is the one listed by the account that comes first in the input
\* order.
C12_FirstAccountWins ==
    Aggregated =>
        \A n \in UNION {FullNamesOf(Listing(ReposQuery(a))) : a \in Accounts} :
            ListedByTwo(n) =>
                /\ Cardinality({k \in 1..Len(all_repos) : all_repos[k].full_name = n}) = 1
                /\ FirstNamed(all_repos, n) = FirstNamed(Listing(ReposQuery(FirstLister(n))), n)

\* C12 witness: carol comes before bob, both list org/s, and the result
\* holds carol's entry.
C12_SharedNameWitness ==
    /\ Aggregated
    /\ fetch.usernames = <<"carol", "bob">>
    /\ ListedByTwo("org/s")
    /\ \E k \in 1..Len(all_repos) : all_repos[k] = OrgFromCarol

\* A single-list fetch (own, starred, watched) has returned Ok with its list.
ListReturned ==
    /\ fetch # <<>>
    /\ fetch.source \notin FanOut
    /\ fetch.at = "done"
    /\ fetch.err = "none"

\* The fetch has handed its list to main.
Handed == Aggregated \/ ListReturned

UniqueFullNames(list) ==
    \A i, k \in 1..Len(list) : list[i].full_name = list[k].full_name => i = k

\* The full names the fetched accounts list.
NamesOfAccounts ==
    UNION {FullNamesOf(Listing(ReposQuery(fetch.usernames[k]))) : k \in 1..Len(fetch.usernames)}

\* C13 as stated: in every source mode the list handed over before fork
\* filtering has no two entries with the same full name and is in ascending
\* order of full name.
C13_HandedListUniqueSorted ==
    Handed => UniqueFullNames(all_repos) /\ Ascending(all_repos)

\* C13 amended: in the following and followers modes the list handed over
\* has no two entries with the same full name, is in ascending order of
\* full name and holds every full name the accounts list; in the own,
\* starred and watched modes it is the concatenation of the pages the
\* source returned, in page order, with its order and its repetitions.
C13_HandedListPerMode ==
    /\ Aggregated =>
         /\ UniqueFullNames(all_repos)
         /\ Ascending(all_repos)
         /\ FullNamesOf(all_repos) = NamesOfAccounts
    /\ ListReturned => all_repos = Listing(ListQuery(fetch.source))

\* C13 witness: the own mode has handed over a list that repeats a full
\* name, as its source returned it.
C13_RepeatedNameWitness ==
    /\ ListReturned
    /\ fetch.source = "own"
    /\ Len(all_repos) = 2
    /\ all_repos[1].full_name = all_repos[2].full_name

----------------------------------------------------------------------------
(* destination_path applied to two repositories of one run                  *)
(* (main.rs:149-152, 243-249), for every root name, owner and name.         *)

Logins == {"alice", "Alice", "bob"}
RepoNames == {"x", "bob"}

\* The repositories of the pair: full_name is owner/name, as (owner, name).
PathRepos ==
    {[name |-> n, owner |-> o, full_name |-> <<o, n>>, fork |-> FALSE] :
        o \in Logins, n \in RepoNames}

NoPath == <<"unset">>

InitPath ==
    /\ probe \in {[root |-> r, a |-> a, b |-> b, path_a |-> NoPath, path_b |-> NoPath] :
                    r \in Logins, a \in PathRepos, b \in PathRepos}
    /\ NotFetching
    /\ concurrency = 1
    /\ force = FALSE
    /\ exact_mirror = FALSE
    /\ fs = [q \in Paths |-> "absent"]
    /\ repos_to_sync = <<>>
    /\ desired_paths = {}
    /\ pc = "paths"
    /\ submitted = 0
    /\ jpc = <<>>
    /\ jerr = <<>>
    /\ jhist = <<>>
    /\ results = <<>>
    /\ todo = {}
    /\ fs_at_prune = NotScanned
    /\ printed = <<>>
    /\ exit = Running
    /\ genv = None
    /\ gout = NoForceResult
    /\ uout = NoUpstream
    /\ run = 1

\* main.rs:149-152: the destination of each repository of the run.
ComputePaths ==
    /\ pc = "paths"
    /\ probe # <<>>
    /\ probe.path_a = NoPath
    /\ probe' = [probe EXCEPT
                   !.path_a = destination_path(output_dir, probe.a, probe.root),
                   !.path_b = destination_path(output_dir, probe.b, probe.root)]
    /\ pc' = "paths_done"
    /\ UNCHANGED << args, fs, repos_to_sync, desired_paths, submitted, jpc, jerr, jhist,
                    results, todo, fs_at_prune, printed, exit, gitvars, fetchvars, run >>

NextPath == ComputePaths

SpecPath == InitPath /\ [][NextPath]_vars

PathsComputed == pc = "paths_done"

\* Both owners are the root account up to ASCII letter case.
BothRootOwned ==
    /\ eq_ignore_ascii_case(probe.a.owner, probe.root)
    /\ eq_ignore_ascii_case(probe.b.owner, probe.root)

\* C14 as stated: two repositories of one run with different full names
\* get different destination paths, whatever the owners, names and root.
C14_DistinctNamesDistinctPaths ==
    PathsComputed =>
        (probe.a.full_name # probe.b.full_name => probe.path_a # probe.path_b)

\* C14 amended: two repositories with different full names get the same
\* destination path exactly when they have the same name and both owner
\* logins equal the root name up to letter case (so the owners differ only
\* in letter case); in every other case their paths differ.
C14_DistinctPathsUnlessBothRootOwned ==
    PathsComputed =>
        (probe.a.full_name # probe.b.full_name =>
            (probe.path_a = probe.path_b <=>
                (probe.a.name = probe.b.name /\ BothRootOwned)))

\* C14 witness: Alice/x and alice/x under the root alice have both been
\* given the path x.
C14_CaseCollisionWitness ==
    /\ PathsComputed
    /\ probe.root = "alice"
    /\ probe.a.full_name = <<"Alice", "x">>
    /\ probe.b.full_name = <<"alice", "x">>
    /\ probe.path_a = <<"x">>
    /\ probe.path_b = <<"x">>

\* The fetch of one account's repositories has failed inside
\* fetch_repos_for_users.
FanOutFailed ==
    /\ fetch # <<>>
    /\ fetch.source \in FanOut
    /\ fetch.usernames # <<>>
    /\ fetch.err # "none"

LastRequest == fetch.requests[Len(fetch.requests)]

\* C15: once the fetch of one account's repositories has failed, by a
\* transport error, a non-success status or a decode error, no further
\* request is issued, the aggregation returns its error and no list, and
\* the run ends in failure with no job created or started and the local
\* file system as it was.
C15_AccountFailureEndsRun ==
    /\ [][FanOutFailed' => fs' = fs]_vars
    /\ [](FanOutFailed =>
        /\ fetch.err \in ErrorKinds
        /\ \/ fetch.at = "user_repos" /\ fetch.result = "err" /\ pc = "fetch"
           \/ fetch.at = "done" /\ pc = "exit" /\ exit = Failure(FanOutContext)
        /\ LastRequest = [query |-> ReposQuery(fetch.usernames[fetch.uidx]), page |-> fetch.page]
        /\ ~Respond(LastRequest.query, LastRequest.page).ok
        /\ \A k \in (fetch.uidx + 1)..Len(fetch.usernames) :
               fetch.usernames[k] \notin fetch.seen_users =>
                   \A j \in 1..Len(fetch.requests) :
                       fetch.requests[j].query # ReposQuery(fetch.usernames[k])
        /\ all_repos = <<>>
        /\ repos_to_sync = <<>> /\ jpc = <<>> /\ submitted = 0 /\ results = <<>>
        /\ fs_at_prune = NotScanned /\ todo = {})

\* C15 witness: the fetch of the first account failed with a non-success
\* status, the run has ended in failure, and the second account was never
\* asked for.
C15_FirstAccountFailsWitness ==
    /\ FanOutFailed
    /\ fetch.err = "status"
    /\ fetch.usernames = <<"bob", "carol">>
    /\ fetch.uidx = 1
    /\ api[ReposQuery("carol")] # <<>>
    /\ pc = "exit"
    /\ exit = Failure(FanOutContext)

\* The requests of the whole fetch that asked for the given query.
RequestsFor(q) == SelectSeq(fetch.requests, LAMBDA r : r.query = q)

\* Every page of the query before its first empty page has sz items.
PagesOfSize(q, sz) == \A p \in 1..FullPages(q) : Len(api[q][p].items) = sz

\* fetch_paginated has returned Ok and its caller has not yet gone on.
PaginatedOk == fetch # <<>> /\ fetch.result = "ok"

\* C16: while fetch_paginated runs it has asked for no page beyond the
\* first empty one, and when the source has N non-empty pages followed by
\* an empty page it returns the items of the N pages in page order (N
\* times the page size when all pages have the same size) after exactly
\* N+1 requests, for the pages 1..N+1 in this order.
C16_PaginationStopsAtEmptyPage ==
    /\ (fetch # <<>> /\ fetch.result = "pending") =>
           /\ fetch.page <= FullPages(fetch.query) + 1
           /\ ENABLED FetchPage
    /\ PaginatedOk =>
           LET q == fetch.query
               n == FullPages(q)
           IN /\ Respond(q, n + 1) = PageOf(<<>>)
              /\ fetch.items = Listing(q)
              /\ \A sz \in 1..2 : PagesOfSize(q, sz) => Len(fetch.items) = n * sz
              /\ RequestsFor(q) = [k \in 1..(n + 1) |-> [query |-> q, page |-> k]]
              /\ SubSeq(fetch.requests, Len(fetch.requests) - n, Len(fetch.requests))
                     = RequestsFor(q)

\* C16 witness: a source with two pages of two repositories and then an
\* empty page has been read in three requests.
C16_TwoFullPagesWitness ==
    /\ PaginatedOk
    /\ FullPages(fetch.query) = 2
    /\ PagesOfSize(fetch.query, 2)
    /\ Len(fetch.items) = 4
    /\ Len(fetch.requests) = 3

----------------------------------------------------------------------------
(* Properties of the whole run that involve the concurrency limit and the   *)
(* empty retained set.                                                      *)

\* Some job of the pool has no outcome yet.
OutcomesOutstanding == pc = "pool" /\ count >= 1 /\ Len(results) < count

\* C17: the concurrency limit of a run that reaches the job pool is
\* positive, a limit of zero having been rejected before any job is
\* submitted, so that a pool with outcomes outstanding can always take a
\* queued job or step a job in flight and never stalls.
C17_ConcurrencyLimitPositive ==
    /\ pc = "pool" => concurrency >= 1
    /\ OutcomesOutstanding => ENABLED (PoolAdmit \/ (\E i \in Jobs : JobStep(i)))

\* The account list of a fan-out mode has come back empty and main has
\* gone on from it.
NoAccounts ==
    /\ fetch # <<>>
    /\ fetch.source \in FanOut
    /\ fetch.at = "done"
    /\ fetch.err = "none"
    /\ fetch.usernames = <<>>

\* C18: in the following and followers modes, when the account list is
\* empty the run ends in success having done nothing: the only request is
\* the one for the account list, no repository list is fetched, no job is
\* created or started, the local tree is left as it was (the output
\* directory is not created and no local repository is removed) and no
\* reconciliation scan is made, with the exact-mirror option set or unset.
C18_NoAccountsNoWork ==
    /\ [][NoAccounts' => fs' = fs]_vars
    /\ []((Paged("accounts") /\ fetch.result = "ok" /\ fetch.items = <<>>) =>
             ENABLED AccountsFetched)
    /\ [](NoAccounts =>
             /\ pc = "exit"
             /\ exit = Success
             /\ fetch.requests = <<[query |-> ListQuery(fetch.source), page |-> 1]>>
             /\ all_repos = <<>>
             /\ repos_to_sync = <<>> /\ jpc = <<>> /\ submitted = 0 /\ results = <<>>
             /\ fs \in FetchDisks
             /\ fs_at_prune = NotScanned /\ todo = {})

\* C18 witness: a followers run with the exact-mirror option set, over the
\* mirror of an earlier run, has ended in success on an empty account list
\* with the mirror still in place.
C18_ExactMirrorNoAccountsWitness ==
    /\ NoAccounts
    /\ fetch.source = "followers"
    /\ exact_mirror
    /\ exit = Success
    /\ fs = MirroredDisk

----------------------------------------------------------------------------
(* The run whose retained set is empty: the fetch, the fork filter and,     *)
(* with --exact-mirror, the reconciliation (main.rs:72-171).                *)

NextNoRepos ==
    \/ NextFetch
    \/ count = 0 /\ MakeOutputDir
    \/ count = 0 /\ PruneScan
    \/ count = 0 /\ PruneRemove
    \/ count = 0 /\ PruneCleanupStart
    \/ count = 0 /\ PruneCleanupEntry
    \/ count = 0 /\ PruneReturn

SpecNoRepos == InitFetch /\ [][NextNoRepos]_vars

\* The fetch handed over its list and the fork filter retained nothing.
EmptyRetained == Handed /\ count = 0

NoJobStarted ==
    /\ jpc = <<>>
    /\ submitted = 0
    /\ results = <<>>
    /\ pc \notin {"pool", "summary"}

ReconciliationFailures == {<<"Failed to create output directory">>} \cup PruneErrors

\* C19 as stated: when the retained set is empty no job is started and the
\* run ends in success; without exact-mirror nothing is scanned or removed,
\* and with it the reconciliation runs against an empty desired set and
\* the run ends with every discovered repository deleted.
C19_EmptySetEndsInSuccess ==
    /\ [][(EmptyRetained' /\ ~exact_mirror) => fs' = fs]_vars
    /\ [](EmptyRetained =>
            /\ NoJobStarted
            /\ desired_paths = {}
            /\ ~exact_mirror => pc = "exit" /\ fs_at_prune = NotScanned
            /\ pc = "exit" =>
                 /\ exit = Success
                 /\ exact_mirror =>
                      /\ fs_at_prune # NotScanned
                      /\ \A p \in Discovered : ~exists(fs, p))

\* C19 amended: when the retained set is empty no job is started; without
\* exact-mirror the run ends in success with nothing scanned or removed;
\* with it the output directory is created and the reconciliation runs
\* against an empty desired set, and the run ends either in success with
\* every discovered repository deleted, or in failure when the creation of
\* the output directory or a step of the reconciliation failed.
C19_EmptySetPrunesIfExact ==
    /\ [][(EmptyRetained' /\ ~exact_mirror) => fs' = fs]_vars
    /\ [](EmptyRetained =>
            /\ NoJobStarted
            /\ desired_paths = {}
            /\ ~exact_mirror =>
                 pc = "exit" /\ exit = Success /\ fs_at_prune = NotScanned
            /\ (exact_mirror /\ pc = "exit") =>
                 \/ /\ exit = Success
                    /\ fs_at_prune # NotScanned
                    /\ \A p \in Discovered : ~exists(fs, p)
                 \/ /\ exit.code = "failure"
                    /\ exit.msg \in ReconciliationFailures)

\* C19 witness: an exact-mirror run whose list held only a fork, dropped by
\* the filter, has ended in success with both repositories of the earlier
\* mirror deleted.
C19_ForkOnlyMirrorEmptiedWitness ==
    /\ EmptyRetained
    /\ exact_mirror
    /\ Len(all_repos) = 1
    /\ pc = "exit"
    /\ exit = Success
    /\ Discovered = {<<"z">>, <<"bob", "x">>}
    /\ \A p \in Discovered : ~exists(fs, p)

----------------------------------------------------------------------------
(* Properties of the fork filter and the desired set.                       *)

\* The list without its forks, in the list's order.
RECURSIVE WithoutForks(_)
WithoutForks(list) ==
    IF list = <<>> THEN <<>>
    ELSE IF Head(list).fork THEN WithoutForks(Tail(list))
    ELSE <<Head(list)>> \o WithoutForks(Tail(list))

PathOf(repo) == destination_path(output_dir, repo, username)

\* C20: once the fetched list is handed over, the sync set is the list
\* without its forks when include-forks is unset and the whole list when it
\* is set, the desired set is exactly the set of destination paths of the
\* sync set, and with include-forks unset the destination of every fork of
\* the list is outside the desired set.
C20_SyncSetAndDesiredSet ==
    Handed =>
        /\ repos_to_sync = IF include_forks THEN all_repos ELSE WithoutForks(all_repos)
        /\ desired_paths = {PathOf(repos_to_sync[k]) : k \in 1..Len(repos_to_sync)}
        /\ ~include_forks =>
             \A k \in 1..Len(all_repos) :
                 all_repos[k].fork => PathOf(all_repos[k]) \notin desired_paths

\* C20 witness: with include-forks unset the own list held the fork alice/z,
\* mirrored at z by an earlier run, and a repository that is retained; z is
\* outside the desired set.
C20_MirroredForkOutsideWitness ==
    /\ Handed
    /\ ~include_forks
    /\ fs = MirroredDisk
    /\ Len(all_repos) = 2
    /\ \E k \in 1..2 : all_repos[k].full_name = "alice/z" /\ all_repos[k].fork
    /\ Len(repos_to_sync) = 1
    /\ is_git_repo(fs, <<"z">>)
    /\ <<"z">> \notin desired_paths

----------------------------------------------------------------------------
(* Properties of the jobs' destinations and operations.                     *)

\* The paths whose entry a step changes.
Touched == {p \in Paths : fs'[p] # fs[p]}

\* C21: under the root username Alice the destination of a job whose
\* repository is owned by alice is output_dir/name and that of one owned by
\* bob is output_dir/bob/name; the destinations of the jobs are exactly the
\* paths of the desired set, and a step of a job changes nothing outside
\* the line of its destination (the path, what is above it, what is below).
C21_JobPathIsDesiredPath ==
    /\ [](\A i \in Jobs :
            /\ repos_to_sync[i].owner = "alice" => Dest(i) = output_dir \o <<repos_to_sync[i].name>>
            /\ repos_to_sync[i].owner = "bob" =>
                   Dest(i) = output_dir \o <<"bob", repos_to_sync[i].name>>
            /\ Dest(i) \in desired_paths)
    /\ [](desired_paths = {Dest(i) : i \in Jobs})
    /\ [][\A i \in Jobs :
            (pc = "pool" /\ Stepped(i)) =>
                \A p \in Touched : IsPrefix(p, Dest(i)) \/ IsPrefix(Dest(i), p)]_vars

\* C21 witness: the jobs of alice/z and bob/x have cloned to z and to
\* bob/x, the two paths of the desired set.
C21_BothOwnersClonedWitness ==
    /\ pc = "pool"
    /\ count = 2
    /\ FullNamesOf(repos_to_sync) = {"alice/z", "bob/x"}
    /\ desired_paths = {<<"z">>, <<"bob", "x">>}
    /\ \A i \in Jobs : jpc[i] = "done" /\ jhist[i].local = "Absent"
    /\ \A k \in 1..Len(results) : results[k].ok
    /\ Len(results) = 2
    /\ fs[<<"z">>] = "repo"
    /\ fs[<<"bob", "x">>] = "repo"

\* Where a job is when its next step is the given git operation.
ClonePlaces == {"rm_invalid", "clone", "cleanup"}
PullPlaces == {"pull"}
ForcePlaces == {"force"}

\* Where the job goes from its check, by local state and force flag.
FirstOperation(state, forced) ==
    CASE state = "Absent" -> "clone"
      [] state = "PresentInvalid" -> "rm_invalid"
      [] state = "PresentValid" /\ ~forced -> "pull"
      [] state = "PresentValid" /\ forced -> "force"

\* C22: the first git operation of a job depends only on the local state
\* found at its start and on the force flag.  From Absent the job goes to
\* git clone and from PresentInvalid to the removal of the path and then to
\* git clone, and such a job never pulls, fetches or resets; from
\* PresentValid it goes to git pull when force is unset, and then never to
\* force_update, and to force_update (whose first command is fetch --all
\* --prune) when force is set, and then never to pull or clone.
C22_FirstOperationByStateAndForce ==
    /\ [][\A i \in Jobs :
            /\ (jpc[i] = "check" /\ Stepped(i)) =>
                   /\ jpc'[i] = FirstOperation(LocalState(fs, Dest(i)), force)
                   /\ jhist'[i].local = LocalState(fs, Dest(i))
            /\ (jpc[i] = "rm_invalid" /\ Stepped(i)) =>
                   \/ jpc'[i] = "clone" /\ ~exists(fs', Dest(i))
                   \/ jpc'[i] = "done" /\ ~results'[Len(results')].ok]_vars
    /\ [](\A i \in Jobs :
            /\ jhist[i].local \in {"Absent", "PresentInvalid"} =>
                   jpc[i] \in ClonePlaces \cup {"done"}
            /\ (jhist[i].local = "PresentValid" /\ force) =>
                   jpc[i] \in ForcePlaces \cup {"done"}
            /\ (jhist[i].local = "PresentValid" /\ ~force) =>
                   /\ jpc[i] \notin ForcePlaces
                   /\ jpc[i] \in ClonePlaces \cup {"rm_reclone", "reclone"} =>
                          jhist[i].branch_changed
            /\ jpc[i] \in PullPlaces => jhist[i].local = "PresentValid" /\ ~force
            /\ jpc[i] \in ForcePlaces => jhist[i].local = "PresentValid" /\ force)

\* C22 witness: with the force flag set a job found its path PresentInvalid,
\* removed it and cloned.
C22_InvalidPathClonedWitness ==
    /\ pc = "pool"
    /\ force
    /\ count = 1
    /\ jhist[1].local = "PresentInvalid"
    /\ jpc[1] = "done"
    /\ results = <<[name |-> repos_to_sync[1].name, ok |-> TRUE, msg |-> <<>>]>>
    /\ ~jhist[1].takedown
    /\ fs[Dest(1)] = "repo"

\* The step removes an entry at or below the destination of job i.
DeletesAtDest(i) ==
    \E p \in Touched : IsPrefix(Dest(i), p) /\ fs[p] # "absent" /\ fs'[p] = "absent"

\* C23: a job that found its path PresentValid deletes at its destination
\* only with the force flag unset and after its pull failed with a text
\* that holds both parts of the default-branch-changed signature.  A pull
\* failure whose text holds one part or none is reported as the job's
\* failure in the same step, with the tree unchanged and no clone; every
\* outcome of force_update ends the job with the tree unchanged.
C23_ValidDirDeletedOnlyOnBranchChange ==
    [][\A i \in Jobs :
         (jhist[i].local = "PresentValid" /\ Stepped(i)) =>
            /\ DeletesAtDest(i) => ~force /\ jhist[i].branch_changed
            /\ (jhist'[i].branch_changed /\ ~jhist[i].branch_changed) =>
                   jpc[i] = "pull" /\ HasBothRefTexts(jerr'[i])
            /\ \A text \in PullFailureTexts :
                   (PullFailedWith(i, text) /\ ~HasBothRefTexts(text)) =>
                       /\ ReportedWith(i, FALSE, text)
                       /\ fs' = fs
                       /\ ~jhist'[i].branch_changed
            /\ jpc[i] = "force" => fs' = fs /\ jpc'[i] = "done"
            /\ jpc'[i] \in ClonePlaces \cup {"rm_reclone", "reclone"} =>
                   ~force /\ jhist'[i].branch_changed]_vars

\* C23 witness: a job in a valid repository, force unset, whose pull failed
\* with only the first part of the signature: the failure is the job's
\* result and the repository is in place.
C23_OnePartFailureReportedWitness ==
    /\ pc = "pool"
    /\ ~force
    /\ count = 1
    /\ jhist[1].local = "PresentValid"
    /\ ~jhist[1].branch_changed
    /\ jpc[1] = "done"
    /\ results = <<[name |-> repos_to_sync[1].name, ok |-> FALSE,
                    msg |-> GitFailed(<<MergeRefText>>)]>>
    /\ fs[Dest(1)] = "repo"

----------------------------------------------------------------------------
(* Properties of force_update's order of operations.                        *)

\* The places of a command among the calls made.
PlacesOf(cmd, calls) == {k \in 1..Len(calls) : calls[k] = cmd}

\* C24: force_update invokes the hard reset only as its last call, once,
\* after a fetch that succeeded and an upstream resolution that resolved,
\* and on exactly the resolved reference, its result being the reset's.  A
\* failed fetch ends it in failure with the fetch as its only call; when no
\* strategy resolves in a repository that has commits it ends in failure
\* with no reset.
C24_ResetOnlyAfterFetchAndUpstream ==
    ForceUpdated =>
        /\ gout.calls[1] = CmdFetch
        /\ Invoked(CmdReset, gout.calls) =>
              /\ genv.fetch.ok
              /\ ~NoneResolves(genv)
              /\ PlacesOf(CmdReset, gout.calls) = {Len(gout.calls)}
              /\ PlacesOf(CmdFetch, gout.calls) = {1}
              /\ gout.reset_to = FirstResolved(genv)
              /\ gout.ok = genv.reset.ok
        /\ ~genv.fetch.ok =>
              /\ ~gout.ok
              /\ gout.msg = GitFailed(genv.fetch.err)
              /\ gout.calls = <<CmdFetch>>
        /\ (genv.fetch.ok /\ NoneResolves(genv) /\ genv.commits = "yes") =>
              /\ ~gout.ok
              /\ gout.msg = UpstreamContext
              /\ Invoked(CmdCommits, gout.calls)
              /\ ~Invoked(CmdReset, gout.calls)

\* C24 witness: the fetch failed in a repository whose recorded upstream
\* resolves and whose reset would succeed; force_update has failed with the
\* fetch as its only call.
C24_FailedFetchWitness ==
    /\ ForceUpdated
    /\ ~genv.fetch.ok
    /\ Resolves1(genv)
    /\ genv.reset.ok
    /\ ~gout.ok
    /\ gout.calls = <<CmdFetch>>
    /\ gout.reset_to = <<>>

----------------------------------------------------------------------------
(* Properties of a failed clone.                                            *)

\* The clone of job i fails at this step.
CloneFails(i) == jpc[i] = "clone" /\ Stepped(i) /\ jpc'[i] # "done"

\* C25 as stated: after a clone failure that is not a takedown, whatever
\* the state the job started in, the job reports that failure and its
\* destination path does not exist when the job ends.
C25_FailedCloneLeavesNoPath ==
    [][\A i \in Jobs : \A text \in CloneFailureTexts :
         (CloneFailedWith(i, text) /\ ~HasTakedownMarker(text)) =>
             /\ ReportedWith(i, FALSE, text)
             /\ ~exists(fs', Dest(i))]_vars

\* C25 amended: a clone runs only where no repository is (an earlier copy
\* has been deleted before it) and its failure is followed by the cleanup;
\* after a clone failure that is not a takedown, whatever the state the job
\* started in, the removal of the destination path is attempted and its
\* failure ignored, and the job reports the clone's failure: the path is
\* gone when the removal succeeded and is as the failed clone left it
\* otherwise.
C25_FailedCloneReportedPathMayStay ==
    [][\A i \in Jobs :
         /\ CloneFails(i) =>
               /\ fs[Dest(i)] # "repo"
               /\ jpc'[i] = "cleanup"
               /\ jerr'[i] \in CloneFailureTexts
         /\ \A text \in CloneFailureTexts :
               (CloneFailedWith(i, text) /\ ~HasTakedownMarker(text)) =>
                   /\ ReportedWith(i, FALSE, text)
                   /\ fs' = remove_dir_all(fs, Dest(i)) \/ fs' = fs]_vars

\* C25 witness: the re-clone after a default-branch-changed pull failure
\* has failed; the job has reported the clone's failure and the path, the
\* previous copy included, is gone.
C25_FailedRecloneWitness ==
    /\ pc = "pool"
    /\ count = 1
    /\ jhist[1].local = "PresentValid"
    /\ jhist[1].branch_changed
    /\ ~jhist[1].takedown
    /\ jpc[1] = "done"
    /\ results = <<[name |-> repos_to_sync[1].name, ok |-> FALSE, msg |-> GitFailed(<<"fatal">>)]>>
    /\ ~exists(fs, Dest(1))

----------------------------------------------------------------------------
(* Properties of the order of the pool and the reconciliation.              *)

PrunePlaces == {"prune", "prune_remove", "prune_cleanup"}

AllOutcomesCollected ==
    /\ submitted = count
    /\ \A i \in Jobs : jpc[i] = "done"
    /\ Len(results) = count

\* C26: in a run with jobs, the reconciliation is entered, and has scanned,
\* only with exact-mirror set and the outcome of every job collected; the
\* pool is left only then, for the reconciliation when exact-mirror is set
\* whether or not a job failed; and while the pool holds a job that is
\* queued or in flight every change of the tree is made by a step of a job.
C26_PruneAfterEveryOutcome ==
    /\ []((count > 0 /\ (pc \in PrunePlaces \/ fs_at_prune # NotScanned)) =>
             exact_mirror /\ AllOutcomesCollected)
    /\ [][(count > 0 /\ pc = "pool" /\ pc' # "pool") =>
             /\ AllOutcomesCollected
             /\ pc' = IF exact_mirror THEN "prune" ELSE "summary"]_vars
    /\ [][(pc = "pool" /\ ~AllOutcomesCollected /\ fs' # fs) =>
             \E i \in Jobs : Stepped(i)]_vars

\* C26 witness: an exact-mirror run in which a job failed has collected
\* both outcomes and then removed a discovered repository outside the
\* desired set.
C26_PrunedAfterFailedJobWitness ==
    /\ exact_mirror
    /\ count = 2
    /\ AllOutcomesCollected
    /\ FailedResults # <<>>
    /\ pc \in PrunePlaces
    /\ fs_at_prune # NotScanned
    /\ \E p \in Discovered \ desired_paths : ~exists(fs, p)

----------------------------------------------------------------------------
(* output_dir_name applied to two runs (main.rs:145-146, 252-260).  A name  *)
(* is the sequence of its parts: format!("{}-stars", username) appends the  *)
(* part "-stars" to the parts of username.                                  *)

\* The usernames of the two runs.  The hosting service admits a hyphen
\* inside a login, so alice-stars and alice-watching are logins too.
Usernames == {<<"alice">>, <<"bob">>, <<"alice", "-stars">>, <<"alice", "-watching">>}

\* main.rs:252-260
output_dir_name(name, source) ==
    CASE source = "own" -> name
      [] source = "stars" -> name \o <<"-stars">>
      [] source = "following" -> name \o <<"-following">>
      [] source = "followers" -> name \o <<"-followers">>
      [] source = "watched" -> name \o <<"-watching">>

NoName == <<"unset">>

InitName ==
    /\ probe \in {[user_a |-> ua, source_a |-> sa, user_b |-> ub, source_b |-> sb,
                   dir_a |-> NoName, dir_b |-> NoName] :
                    ua \in Usernames, sa \in SyncSources, ub \in Usernames, sb \in SyncSources}
    /\ NotFetching
    /\ concurrency = 1
    /\ force = FALSE
    /\ exact_mirror = TRUE
    /\ fs = [q \in Paths |-> "absent"]
    /\ repos_to_sync = <<>>
    /\ desired_paths = {}
    /\ pc = "names"
    /\ submitted = 0
    /\ jpc = <<>>
    /\ jerr = <<>>
    /\ jhist = <<>>
    /\ results = <<>>
    /\ todo = {}
    /\ fs_at_prune = NotScanned
    /\ printed = <<>>
    /\ exit = Running
    /\ genv = None
    /\ gout = NoForceResult
    /\ uout = NoUpstream
    /\ run = 1

\* main.rs:145-146: each run derives the name of its output directory.
ComputeNames ==
    /\ pc = "names"
    /\ probe # <<>>
    /\ probe.dir_a = NoName
    /\ probe' = [probe EXCEPT
                   !.dir_a = output_dir_name(probe.user_a, probe.source_a),
                   !.dir_b = output_dir_name(probe.user_b, probe.source_b)]
    /\ pc' = "names_done"
    /\ UNCHANGED << args, fs, repos_to_sync, desired_paths, submitted, jpc, jerr, jhist,
                    results, todo, fs_at_prune, printed, exit, gitvars, fetchvars, run >>

NextName == ComputeNames

SpecName == InitName /\ [][NextName]_vars

NamesComputed == pc = "names_done"

\* C27: two runs whose source modes differ get output directories of
\* different names, whatever their usernames, so that the reconciliation
\* of one never works on the directory of the other.
C27_ModesNeverShareOutputDir ==
    NamesComputed =>
        (probe.source_a # probe.source_b => probe.dir_a # probe.dir_b)

\* The runs `alice-stars` in own mode and `alice --stars` have been given
\* the same output directory.
C27_HyphenatedLoginCollides ==
    /\ NamesComputed
    /\ probe.user_a = <<"alice", "-stars">> /\ probe.source_a = "own"
    /\ probe.user_b = <<"alice">> /\ probe.source_b = "stars"
    /\ probe.dir_a = probe.dir_b

----------------------------------------------------------------------------
(* Properties of a job that reports success.                                *)

\* Job i returns at this step with success.
Succeeds(i) == Stepped(i) /\ Reported(i, TRUE)

====
